---------------------------- MODULE Spec2Model ----------------------------
(***************************************************************************)
(* A model of the incident-response pipeline of devops-war-room:           *)
(*   MonitorAgent      src/src/agents/monitor_agent.py                     *)
(*   PrometheusClient  src/src/integrations/prometheus_client.py           *)
(*   TriageAgent       src/src/agents/triage_agent.py                      *)
(*   DiagnosticAgent   src/src/agents/diagnostic_agent.py                  *)
(*   RemediationAgent  src/src/agents/remediation_agent.py                 *)
(* Each component has its own specification (SpecMonitor, SpecTriage,      *)
(* SpecParse, SpecDiagnose, SpecRemediation); the variables of the other   *)
(* components stay at their initial values.                                *)
(***************************************************************************)
EXTENDS Integers, Sequences, FiniteSets, Bags, TLC

VARIABLES
    \* ---- MonitorAgent ----
    pc,               \* position of MonitorAgent.start / _check_alerts
    firing_alerts,    \* MonitorAgent.firing_alerts
    alerts,           \* local of _check_alerts: the fetched alert list
    current_firing,   \* local of _check_alerts
    new_alerts,       \* local: names still to be logged by the first loop
    resolved_alerts,  \* local: names still to be logged by the second loop
    hist,             \* one entry per started tick: what the backend reported,
                      \* the tracked set at its start, the events it logged
    alert_details,    \* what _log_new_alert was handed by the current tick
    interrupted_at,   \* where the loop was when KeyboardInterrupt arrived
    health,           \* what the health check of start() came back with
    \* ---- TriageAgent.investigate_alert ----
    t_pc,             \* position inside investigate_alert
    alert,            \* the alert under investigation
    t_idx,            \* index of the next (metric_name, query) pair
    metrics,          \* local of _query_current_metrics, in insertion order
    time_series,      \* local of _query_time_series, in insertion order
    issued,           \* the backend queries issued so far, with their outcome
    report,           \* what investigate_alert returned
    \* ---- DiagnosticAgent._parse_diagnosis ----
    p_pc,             \* position inside _parse_diagnosis
    diagnosis_text,   \* the raw response handed to the parser
    lines,            \* diagnosis_text.split("\n")
    line_no,          \* index of the line the loop is at
    current_section,  \* local of _parse_diagnosis
    p_result,         \* local 'result' of _parse_diagnosis, returned at the end
    \* ---- DiagnosticAgent.diagnose ----
    d_pc,             \* position inside diagnose
    alert_info,       \* argument of diagnose
    triage_report,    \* argument of diagnose
    metrics_summary,  \* local of diagnose
    rag_context,      \* local of diagnose: the precedent text
    prompt_text,      \* what self.llm.invoke was handed
    knowledge_base,   \* DiagnosticAgent.knowledge_base: "None" or "ready"
    incidents,        \* the records in the incidents table of the store
    similar_incidents,\* local of diagnose, unbound until assigned
    llm_calls,        \* how often self.llm.invoke was called
    search_calls,     \* how often knowledge_base.search_similar was called
    add_calls,        \* how often knowledge_base.add_incident was called
    response,         \* what the engine answered
    d_parsed,         \* local 'parsed' of diagnose
    diagnosis,        \* what diagnose returned
    \* ---- RemediationAgent.propose_fix ----
    r_pc,             \* position inside propose_fix
    chain_calls,      \* how often self.chain.invoke was called
    llm_response,     \* what the engine answered
    parse_error,      \* the exception the first parse raised
    plan,             \* what propose_fix returned
    \* ---- the drivers: the batch operations and examples/demo_remediation ----
    driver,           \* "batch" or "demo"
    s_pc,             \* the stage the driver is at
    s_alerts,         \* the firing alerts the driver was handed
    s_idx,            \* index of the next item of the batch loop
    reports,          \* local of investigate_multiple_alerts / triage_report
    diagnoses,        \* local 'results' of diagnose_multiple / diagnosis
    diagnosis_context,\* what the demo hands to propose_fix
    started,          \* the stages started so far, with what they were handed
    proposed,         \* local 'plan' of the demo: what propose_fix returned
    choice,           \* what the human typed at the approval prompt
    \* ---- IncidentKnowledgeBase ----
    rows,             \* the rows of the incidents table; no rows, no table
    embedding,        \* the vector the embedding engine gives each text
    embed_calls,      \* how often embed_query was called
    index_searches,   \* how often the vector index was searched
    kb_calls,         \* the calls of the store so far, with their outcome
    \* ---- concurrent callers of IncidentKnowledgeBase.add_incident ----
    w_pc,             \* position of each caller inside add_incident
    w_vector,         \* local 'vector' of each caller
    w_exists,         \* what each caller's table_names() check saw
    \* ---- DatabaseConnectionPool and MockConnection (src/app/database.py) ----
    active_connections, \* DatabaseConnectionPool.active_connections
    conns,            \* the MockConnection objects handed out
    c_pc,             \* position of each thread inside MockConnection.close
    c_conn,           \* the connection each thread is closing
    acquired,         \* what the last acquire of each thread came to
    \* ---- fault injection (src/app/bugs.py) ----
    ENABLE_BUGS,      \* Config.ENABLE_BUGS
    leaked_sessions,  \* bugs.leaked_sessions
    fault,            \* the last fault-injection call and what it did
    \* ---- request handlers (src/app/routes.py) ----
    requests,         \* the request each worker thread is serving
    served            \* how many requests have been responded to

monVars == <<pc, firing_alerts, alerts, current_firing, new_alerts,
             resolved_alerts, hist, alert_details, interrupted_at, health>>

triVars == <<t_pc, alert, t_idx, metrics, time_series, issued, report>>

parVars == <<p_pc, diagnosis_text, lines, line_no, current_section, p_result>>

diagVars == <<d_pc, alert_info, triage_report, metrics_summary,
              rag_context, prompt_text,
              knowledge_base, incidents,
              similar_incidents, llm_calls, search_calls, add_calls, response,
              d_parsed, diagnosis>>

remVars == <<r_pc, chain_calls, llm_response, parse_error, plan>>

pipeVars == <<driver, s_pc, s_alerts, s_idx, reports, diagnoses,
              diagnosis_context, started, proposed, choice>>

storeVars == <<rows, embedding, embed_calls, index_searches, kb_calls>>

writerVars == <<w_pc, w_vector, w_exists>>

poolVars == <<active_connections, conns, c_pc, c_conn, acquired>>

bugVars == <<ENABLE_BUGS, leaked_sessions, fault>>

routeVars == <<requests, served>>

appVars == <<writerVars, poolVars, bugVars, routeVars>>

vars == <<monVars, triVars, parVars, diagVars, remVars, pipeVars, storeVars,
          appVars>>

-----------------------------------------------------------------------------
(* Bounds of the model *)

MaxTicks == 4       \* ticks of the polling loop that are explored
MaxAlerts == 2      \* length of the alert list one poll returns
MaxSeries == 2      \* series in the result of one instant or range query
MaxLines == 3       \* lines of an engine response handed to the parser
MaxIncidents == 4   \* records in the incidents table when diagnose starts
MaxBatch == 2       \* alerts handed to a driver
MaxCalls == 3       \* calls of add_incident and search_similar on one store
MaxWriters == 2     \* concurrent callers of add_incident
MaxThreads == 2     \* threads using the connection pool
MaxLeaks == 3       \* entries of leaked_sessions that are explored
MaxRequests == 4    \* requests the handlers serve
FillerLen == 495    \* length of the line that opens a long engine response

-----------------------------------------------------------------------------
(* PrometheusClient.get_alerts *)

AlertNames == {"HighErrorRate", "SlowRequests"}
AlertStates == {"firing", "pending", "inactive"}

\* An alert object of the alerts API (the parts the monitor reads).
Alert == [alertname : AlertNames, state : AlertStates]

RECURSIVE ListsUpTo(_, _)
ListsUpTo(S, n) ==
    IF n = 0 THEN {<<>>}
    ELSE LET shorter == ListsUpTo(S, n - 1)
         IN  shorter \cup {Append(l, x) : l \in {s \in shorter : Len(s) = n - 1}, x \in S}

Polls == ListsUpTo(Alert, MaxAlerts)

\* An alert object whose "annotations" is null instead of an object: the
\* alerts API does not send such an alert, a backend that does not keep to it
\* can.
NullAnnotations ==
    [alertname : AlertNames, state : {"firing"}, annotations : {"null"}]

FiringAlerts == {a \in Alert : a.state = "firing"}

\* Polls of such a backend: nothing, one firing alert with or without
\* annotations, or a firing alert followed by one of another name that lacks
\* them.
MalformedPolls ==
    {<<>>} \cup {<<a>> : a \in FiringAlerts \cup NullAnnotations}
        \cup {p \in {<<a, b>> : a \in FiringAlerts, b \in NullAnnotations} :
                 p[1].alertname # p[2].alertname}

\* What the HTTP GET of /api/v1/alerts can come back with.
AlertResponses ==
    {[kind |-> k, error |-> "timeout", alerts |-> <<>>] :
        k \in {"transport_error", "http_error", "status_error", "null_alerts"}}
    \cup {[kind |-> "success", error |-> "", alerts |-> p] : p \in Polls}

MalformedResponses ==
    {[kind |-> "transport_error", error |-> "timeout", alerts |-> <<>>]}
    \cup {[kind |-> "success", error |-> "", alerts |-> p] : p \in MalformedPolls}

\* The outcome of a call: an exception with its str(e), None, or a value.
Raise(msg) == [raised |-> TRUE, none |-> FALSE, value |-> <<>>, message |-> msg]
ReturnedNone == [raised |-> FALSE, none |-> TRUE, value |-> <<>>, message |-> ""]
Returned(v) == [raised |-> FALSE, none |-> FALSE, value |-> v, message |-> ""]

get_alerts_swallow(resp) ==
    IF resp.kind = "success" THEN Returned(resp.alerts) ELSE Returned(<<>>)

get_alerts(resp) ==
    IF resp.kind \in {"transport_error", "http_error"}
    THEN \* requests.get or raise_for_status raises a RequestException
         Raise("Failed to fetch alerts from Prometheus: " \o resp.error)
    ELSE IF resp.kind = "status_error"
    THEN Raise("Prometheus API error: " \o resp.error)
    ELSE IF resp.kind = "null_alerts"
    THEN ReturnedNone                      \* "alerts": null in the answer
    ELSE Returned(resp.alerts)

-----------------------------------------------------------------------------
(* The state of a component that is not running *)

NoReport == [status |-> "none"]

TriIdle ==
    /\ t_pc = "idle"
    /\ alert = [alertname |-> "", has_annotations |-> TRUE]
    /\ t_idx = 0
    /\ metrics = <<>>
    /\ time_series = <<>>
    /\ issued = <<>>
    /\ report = NoReport

Unbound == [bound |-> FALSE]             \* a local not assigned yet
Bound(v) == [bound |-> TRUE, value |-> v]

ParIdle ==
    /\ p_pc = "idle"
    /\ diagnosis_text = <<>>
    /\ lines = <<>>
    /\ line_no = 0
    /\ current_section = "None"
    /\ p_result = [status |-> "none"]

DiagIdle ==
    /\ d_pc = "idle"
    /\ alert_info = [status |-> "none"]
    /\ triage_report = [status |-> "none"]
    /\ metrics_summary = <<>>
    /\ rag_context = <<>>
    /\ prompt_text = [status |-> "none"]
    /\ knowledge_base = "None"
    /\ incidents = <<>>
    /\ similar_incidents = Unbound
    /\ llm_calls = 0
    /\ search_calls = 0
    /\ add_calls = 0
    /\ response = [kind |-> "none"]
    /\ d_parsed = [status |-> "none"]
    /\ diagnosis = [status |-> "none"]

RemIdle ==
    /\ r_pc = "idle"
    /\ chain_calls = 0
    /\ llm_response = [kind |-> "none"]
    /\ parse_error = "None"
    /\ plan = [status |-> "none"]

PipeIdle ==
    /\ driver = "none"
    /\ s_pc = "idle"
    /\ s_alerts = <<>>
    /\ s_idx = 0
    /\ reports = <<>>
    /\ diagnoses = <<>>
    /\ diagnosis_context = [status |-> "none"]
    /\ started = <<>>
    /\ proposed = [status |-> "none"]
    /\ choice = "None"

StoreIdle ==
    /\ rows = <<>>
    /\ embedding = <<>>
    /\ embed_calls = 0
    /\ index_searches = 0
    /\ kb_calls = <<>>

WriterIdle ==
    /\ w_pc = <<>>
    /\ w_vector = <<>>
    /\ w_exists = <<>>

PoolIdle ==
    /\ active_connections = 0
    /\ conns = <<>>
    /\ c_pc = <<>>
    /\ c_conn = <<>>
    /\ acquired = <<>>

BugIdle ==
    /\ ENABLE_BUGS = TRUE
    /\ leaked_sessions = <<>>
    /\ fault = [op |-> "none"]

RouteIdle ==
    /\ requests = <<>>
    /\ served = 0

AppIdle == WriterIdle /\ PoolIdle /\ BugIdle /\ RouteIdle

-----------------------------------------------------------------------------
(* MonitorAgent *)

NoAlert == [alertname |-> "", state |-> ""]      \* the {} of _get_alert_by_name

RECURSIVE _get_alert_by_name(_, _)
_get_alert_by_name(list, alert_name) ==
    IF list = <<>> THEN NoAlert
    ELSE IF Head(list).alertname = alert_name THEN Head(list)
    ELSE _get_alert_by_name(Tail(list), alert_name)

CurrentFiring_any_state(list) == {list[i].alertname : i \in DOMAIN list}

CurrentFiring(list) ==
    {list[i].alertname : i \in {j \in DOMAIN list : list[j].state = "firing"}}

NewAlerts_refire(cur, prev) == cur
NewAlerts(cur, prev) == cur \ prev
ResolvedAlerts(cur, prev) == prev \ cur

\* The transition events: the "ALERT FIRING: name" and "ALERT RESOLVED: name"
\* blocks of the log.
FiringEvent(name) == <<"firing", name>>
ResolvedEvent(name) == <<"resolved", name>>

\* A history entry: whether the backend answered the poll and with which
\* firing names, the tracked set when the tick started, the events logged.
Observed(resp, tracked) ==
    [ok |-> resp.kind = "success", firing |-> CurrentFiring(resp.alerts),
     before |-> tracked, events |-> EmptyBag, raised |-> FALSE]
     \* raised: whether the processing of the poll raised

Logged(h, event) ==
    [h EXCEPT ![Len(h)].events = @ (+) SetToBag({event})]

\* The events the current (last started) tick has logged so far.
emitted == IF hist = <<>> THEN EmptyBag ELSE hist[Len(hist)].events

\* The monitor runs on its own; the other components stay idle meanwhile.
MonFrame == UNCHANGED <<triVars, parVars, diagVars, remVars, pipeVars, storeVars,
                       appVars>>

MonInit ==
    /\ pc = "start"
    /\ firing_alerts = {}
    /\ alerts = <<>>
    /\ current_firing = {}
    /\ new_alerts = {}
    /\ resolved_alerts = {}
    /\ hist = <<>>
    /\ alert_details = {}
    /\ interrupted_at = "never"
    /\ health = [kind |-> "unchecked", status |-> 0]

\* What the HTTP GET of /-/healthy comes back with: an answer with a status
\* code, or a RequestException.
HealthResponses ==
    {[kind |-> "answered", status |-> 200],
     [kind |-> "answered", status |-> 503],
     [kind |-> "transport_error", status |-> 0]}

is_healthy_any_answer(resp) == resp.kind = "answered"

is_healthy(resp) == resp.kind = "answered" /\ resp.status = 200

\* start(): the health check before the loop.
StartHealthy ==
    /\ MonFrame
    /\ pc = "start"
    /\ \E resp \in HealthResponses :
          /\ is_healthy(resp)
          /\ health' = resp
    /\ pc' = "tick"
    /\ UNCHANGED <<firing_alerts, alerts, current_firing, new_alerts,
                   resolved_alerts, hist, alert_details, interrupted_at>>

\* "Prometheus is not reachable. Exiting." and the return of start().
StartUnhealthy ==
    /\ MonFrame
    /\ pc = "start"
    /\ \E resp \in HealthResponses :
          /\ ~is_healthy(resp)
          /\ health' = resp
    /\ pc' = "returned"
    /\ UNCHANGED <<firing_alerts, alerts, current_firing, new_alerts,
                   resolved_alerts, hist, alert_details, interrupted_at>>

except_Exception_reraise(e) == "crashed"

\* "except Exception as e" of _check_alerts: the error is logged and
\* _check_alerts returns to the loop of start(), which goes on to sleep.
except_Exception(e) == "sleep"

\* annotations.get('summary', 'N/A') of _log_new_alert: an AttributeError when
\* the "annotations" of the alert is null.
annotations_get(alert_data) ==
    IF "annotations" \in DOMAIN alert_data /\ alert_data.annotations = "null"
    THEN Raise("'NoneType' object has no attribute 'get'")
    ELSE Returned("N/A")

\* _check_alerts up to the two logging loops: fetch, then the set differences.
\* A fetch that raises, or returns None, ends the tick.
Fetch(resp) ==
    /\ pc = "tick"
    /\ MonFrame
    /\ LET r == get_alerts(resp) IN
        /\ hist' = Append(hist, Observed(resp, firing_alerts))
        /\ alert_details' = {}
        /\ IF r.raised \/ r.none
           THEN /\ pc' = (IF r.raised THEN except_Exception(r.message) ELSE "sleep")
                /\ UNCHANGED <<firing_alerts, alerts, current_firing,
                               new_alerts, resolved_alerts>>
           ELSE /\ pc' = "emit"
                /\ alerts' = r.value
                /\ current_firing' = CurrentFiring(r.value)
                /\ new_alerts' = NewAlerts(CurrentFiring(r.value), firing_alerts)
                /\ resolved_alerts' = ResolvedAlerts(CurrentFiring(r.value), firing_alerts)
                /\ UNCHANGED firing_alerts
    /\ UNCHANGED <<interrupted_at, health>>

\* A poll of alert objects as the alerts API describes them, or a fetch that
\* fails.
CheckAlertsFetch ==
    /\ pc = "tick"
    /\ \E resp \in AlertResponses : Fetch(resp)

\* A poll of a backend that may send alert objects with null annotations.
CheckAlertsFetchMalformed ==
    /\ pc = "tick"
    /\ \E resp \in MalformedResponses : Fetch(resp)

\* One iteration of "for alert_name in new_alerts": _log_new_alert logs the
\* "ALERT FIRING: name" block and then reads the details; an error there is
\* caught by _check_alerts, which returns without reaching the assignment of
\* firing_alerts.
LogNewAlert ==
    /\ MonFrame
    /\ pc = "emit"
    /\ \E alert_name \in new_alerts :
        LET alert_data == _get_alert_by_name(alerts, alert_name)
            read == annotations_get(alert_data)
        IN  /\ alert_details' = alert_details \cup
                   {[name |-> alert_name, alert_data |-> alert_data]}
            /\ IF read.raised
               THEN /\ hist' = [Logged(hist, FiringEvent(alert_name))
                                   EXCEPT ![Len(hist)].raised = TRUE]
                    /\ pc' = except_Exception(read.message)
                    /\ new_alerts' = {}
                    /\ resolved_alerts' = {}
                    /\ alerts' = <<>>
                    /\ current_firing' = {}
               ELSE /\ hist' = Logged(hist, FiringEvent(alert_name))
                    /\ new_alerts' = new_alerts \ {alert_name}
                    /\ UNCHANGED <<pc, alerts, current_firing, resolved_alerts>>
    /\ UNCHANGED <<firing_alerts, interrupted_at, health>>

\* One iteration of "for alert_name in resolved_alerts".
LogResolvedAlert ==
    /\ MonFrame
    /\ pc = "emit"
    /\ new_alerts = {}
    /\ \E alert_name \in resolved_alerts :
        /\ hist' = Logged(hist, ResolvedEvent(alert_name))
        /\ resolved_alerts' = resolved_alerts \ {alert_name}
    /\ UNCHANGED <<pc, firing_alerts, alerts, current_firing, new_alerts,
                   alert_details, interrupted_at, health>>

\* self.firing_alerts = current_firing, and the return of _check_alerts.
UpdateTracking ==
    /\ MonFrame
    /\ pc = "emit"
    /\ new_alerts = {}
    /\ resolved_alerts = {}
    /\ firing_alerts' = current_firing
    /\ pc' = "sleep"
    /\ alerts' = <<>>
    /\ current_firing' = {}
    /\ UNCHANGED <<new_alerts, resolved_alerts, hist, alert_details,
                   interrupted_at, health>>

\* time.sleep(check_interval) returns and the loop calls _check_alerts again.
Wake ==
    /\ MonFrame
    /\ pc = "sleep"
    /\ Len(hist) < MaxTicks
    /\ pc' = "tick"
    /\ UNCHANGED <<firing_alerts, alerts, current_firing, new_alerts,
                   resolved_alerts, hist, alert_details, interrupted_at, health>>

\* KeyboardInterrupt: not an Exception, so _check_alerts does not catch it; it
\* unwinds to the handler in start() from wherever the loop is.
Interrupt ==
    /\ MonFrame
    /\ pc \in {"tick", "emit", "sleep"}
    /\ pc' = "stopped"
    /\ interrupted_at' = pc
    /\ alerts' = <<>>
    /\ current_firing' = {}
    /\ new_alerts' = {}
    /\ resolved_alerts' = {}
    /\ UNCHANGED <<firing_alerts, hist, alert_details, health>>

MonNext ==
    \/ StartHealthy
    \/ StartUnhealthy
    \/ CheckAlertsFetch
    \/ LogNewAlert
    \/ LogResolvedAlert
    \/ UpdateTracking
    \/ Wake
    \/ Interrupt

InitMonitor ==
    MonInit /\ TriIdle /\ ParIdle /\ DiagIdle /\ RemIdle
        /\ PipeIdle /\ StoreIdle /\ AppIdle

SpecMonitor == InitMonitor /\ [][MonNext]_vars

\* The monitor against a backend that may send alert objects with null
\* annotations.
FaultNext ==
    \/ StartHealthy
    \/ StartUnhealthy
    \/ CheckAlertsFetchMalformed
    \/ LogNewAlert
    \/ LogResolvedAlert
    \/ UpdateTracking
    \/ Wake
    \/ Interrupt

SpecMonitorFaults == InitMonitor /\ [][FaultNext]_vars

\* The scheduling of the loop: a sleep returns, and a tick that was started
\* runs on; Ctrl+C may or may not come.
MonFairness ==
    /\ WF_vars(Wake)
    /\ WF_vars(CheckAlertsFetchMalformed)
    /\ WF_vars(LogNewAlert)
    /\ WF_vars(LogResolvedAlert)
    /\ WF_vars(UpdateTracking)

SpecMonitorLive == SpecMonitorFaults /\ MonFairness

-----------------------------------------------------------------------------
(* Claims about the MonitorAgent *)

\* How many events of one kind the n-th tick logged for alert name A.
EventsFor(n, kind, A) == CopiesIn(<<kind, A>>, hist[n].events)

\* The n-th tick has run to its end.
TickDone(n) == n < Len(hist) \/ (n = Len(hist) /\ pc = "sleep")

\* The firing set the backend reported at poll n (empty before the first).
PollFiring(n) == IF n = 0 THEN {} ELSE hist[n].firing

\* The firing set of the last answered poll among the first n (empty if none).
RECURSIVE LastObserved(_)
LastObserved(n) ==
    IF n = 0 THEN {}
    ELSE IF hist[n].ok THEN hist[n].firing
    ELSE LastObserved(n - 1)

OnlyEdges(n, prev) ==
    \A A \in AlertNames :
        /\ EventsFor(n, "firing", A) =
              (IF A \in PollFiring(n) /\ A \notin prev THEN 1 ELSE 0)
        /\ EventsFor(n, "resolved", A) =
              (IF A \in prev /\ A \notin PollFiring(n) THEN 1 ELSE 0)

ScenarioPolls == <<{}, {"HighErrorRate"}, {"HighErrorRate"}, {}>>
ScenarioEvents ==
    <<{}, {<<"firing", "HighErrorRate">>}, {}, {<<"resolved", "HighErrorRate">>}>>

EventSet(n) == BagToSet(hist[n].events)

\* C1: while every poll is fetched successfully, tick n logs a firing event
\* for A iff A fires in poll n and not in poll n-1, a resolved event for A iff
\* A fires in poll n-1 and not in poll n, each exactly once, and nothing for a
\* name whose membership did not change; the polls {}, {HighErrorRate},
\* {HighErrorRate}, {} give firing on tick 2, nothing on tick 3 and resolved
\* on tick 4.
C1_EdgeTransitionsOnly ==
    \A n \in DOMAIN hist :
        (TickDone(n) /\ \A i \in 1..n : hist[i].ok) =>
            /\ OnlyEdges(n, PollFiring(n - 1))
            /\ (n <= 4 /\ \A i \in 1..n : hist[i].firing = ScenarioPolls[i])
                  => EventSet(n) = ScenarioEvents[n]

C1_Witness ==
    /\ pc = "sleep"
    /\ Len(hist) = 4
    /\ \A i \in 1..4 : hist[i].ok /\ hist[i].firing = ScenarioPolls[i]
    /\ emitted = SetToBag({ResolvedEvent("HighErrorRate")})
    /\ hist[2].events = SetToBag({FiringEvent("HighErrorRate")})

\* C2: a tick whose fetch fails logs no event and leaves firing_alerts as it
\* was when the tick started, and a later answered tick is diffed against the
\* firing set of the last answered poll.
C2_FailedFetchSkipsTick ==
    \A n \in DOMAIN hist :
        /\ (~hist[n].ok) =>
              /\ hist[n].events = EmptyBag
              /\ (n = Len(hist) => firing_alerts = hist[n].before)
              /\ (n < Len(hist) => hist[n + 1].before = hist[n].before)
        /\ (hist[n].ok /\ TickDone(n)) => OnlyEdges(n, LastObserved(n - 1))

C2_Witness ==
    /\ pc = "sleep"
    /\ Len(hist) >= 3
    /\ hist[Len(hist) - 2].ok /\ hist[Len(hist) - 2].firing # {}
    /\ ~hist[Len(hist) - 1].ok /\ hist[Len(hist) - 1].before # {}
    /\ hist[Len(hist)].ok /\ hist[Len(hist)].firing = {}
    /\ emitted = SetToBag({ResolvedEvent(A) : A \in hist[Len(hist) - 2].firing})

\* C3: the loop never stops in the middle of a tick: there is no stopped state
\* in which the last started tick logged transition events but firing_alerts
\* was not replaced by that tick's firing set.
C3_CancelBetweenTicks ==
    pc = "stopped" =>
        /\ interrupted_at # "emit"
        /\ (emitted # EmptyBag => firing_alerts = PollFiring(Len(hist)))

Unhealthy(resp) ==
    resp.kind = "transport_error" \/ (resp.kind = "answered" /\ resp.status # 200)

\* C22: when the health check of start() finds the backend unreachable or
\* unhealthy, start returns before any processing: no poll tick is performed,
\* no transition event is logged and firing_alerts stays empty; and start
\* returns that way for no other reason.
C22_UnhealthyStartReturns ==
    /\ Unhealthy(health) =>
          /\ pc = "returned"
          /\ hist = <<>>
          /\ emitted = EmptyBag
          /\ firing_alerts = {}
          /\ alert_details = {}
    /\ pc = "returned" => Unhealthy(health)
    /\ pc \notin {"start", "returned"} => health = [kind |-> "answered", status |-> 200]

\* The backend answers the health check with 503.
C22_Witness ==
    /\ pc = "returned"
    /\ health = [kind |-> "answered", status |-> 503]
    /\ hist = <<>>

\* The names the poll reports in state 'firing'.
ReportedFiring(list) ==
    {A \in AlertNames :
        \E i \in DOMAIN list : list[i].alertname = A /\ list[i].state = "firing"}

\* The tick at hand logs one more event of this kind for A in this step.
LogsNow(kind, A) ==
    /\ hist # <<>>
    /\ Len(hist') = Len(hist)
    /\ CopiesIn(<<kind, A>>, hist'[Len(hist)].events)
          > CopiesIn(<<kind, A>>, emitted)

\* C31: a tick whose fetch succeeded replaces firing_alerts by exactly the
\* names the poll reports in state 'firing'; within it a firing event is
\* logged only for a name the poll reports as firing and a resolved event only
\* for a tracked name that the poll no longer reports as firing, so a name
\* reported only as 'pending' or 'inactive' is not tracked and a name that was
\* never firing gets no event; firing_alerts changes in no other way, a
\* resolved name simply being absent from it.
C31_TrackedSetIsFiringSet ==
    [][/\ (pc = "emit" /\ pc' = "sleep") =>
             firing_alerts' = ReportedFiring(alerts)
       /\ firing_alerts' # firing_alerts => (pc = "emit" /\ pc' = "sleep")
       /\ \A A \in AlertNames :
             /\ LogsNow("firing", A) => A \in ReportedFiring(alerts)
             /\ LogsNow("resolved", A) =>
                   A \in firing_alerts /\ A \notin ReportedFiring(alerts)]_vars

\* HighErrorRate was tracked; the poll of the last tick reported SlowRequests
\* firing and HighErrorRate not firing; the tick replaced the tracked set.
C31_Witness ==
    /\ pc = "sleep"
    /\ hist # <<>>
    /\ hist[Len(hist)].ok
    /\ hist[Len(hist)].before = {"HighErrorRate"}
    /\ firing_alerts = {"SlowRequests"}
    /\ emitted = SetToBag({ResolvedEvent("HighErrorRate"),
                           FiringEvent("SlowRequests")})

\* A tick whose fetch failed or whose processing raised an ordinary error.
FailingTick(n) == n \in DOMAIN hist /\ (~hist[n].ok \/ hist[n].raised)

\* C32: a failing tick is not fatal to the polling loop: after a tick in which
\* the fetch or the processing raised, the loop is still running (unless
\* Ctrl+C came) and, when no Ctrl+C comes, a later tick is performed; the loop
\* stops for no other reason than Ctrl+C.
C32_FailingTickNotFatal ==
    /\ [](FailingTick(Len(hist)) => pc \in {"sleep", "tick", "stopped"})
    /\ [](pc \notin {"start", "returned", "tick", "emit", "sleep"} =>
             (pc = "stopped" /\ interrupted_at # "never"))
    /\ \A n \in 1..(MaxTicks - 1) :
          (Len(hist) = n /\ FailingTick(n)) ~> (Len(hist) > n \/ pc = "stopped")

\* The processing of the first tick raised, the fetch of the second failed,
\* and a third tick is under way.
C32_Witness ==
    /\ Len(hist) = 3
    /\ hist[1].ok /\ hist[1].raised
    /\ ~hist[2].ok
    /\ pc = "emit"

\* The ticks up to n in which an event of this kind was logged for A.
TicksWith(kind, A) == {n \in DOMAIN hist : EventsFor(n, kind, A) > 0}

\* Between two ticks that logged 'kind' for A some tick logged 'other' for A.
Alternates(kind, other, A) ==
    \A i, j \in TicksWith(kind, A) :
        i < j => \E k \in TicksWith(other, A) : i < k /\ k < j

\* C33: each edge transition is reported at most once over any sequence of
\* ticks, also ticks that raise part-way through the logging of events: no
\* tick logs an event twice, two firing events for a name are separated by a
\* resolved event for it and two resolved events by a firing event.
C33_EdgeReportedOnce ==
    \A A \in AlertNames :
        /\ \A n \in DOMAIN hist :
              EventsFor(n, "firing", A) + EventsFor(n, "resolved", A) <= 1
        /\ Alternates("firing", "resolved", A)
        /\ Alternates("resolved", "firing", A)

\* C34: the details handed to _log_new_alert with a new-firing event for
\* name A are those of an alert of that name that is in state 'firing' in the
\* current poll, also when the poll has several alerts of that name.
C34_DetailsOfFiringInstance ==
    \A d \in alert_details :
        /\ d.alert_data.alertname = d.name
        /\ d.alert_data.state = "firing"

-----------------------------------------------------------------------------
(* PrometheusClient.query and PrometheusClient.query_range *)

\* float(s) for the sample values used here, in ten-thousandths; a string
\* that is no number raises ValueError.
float(s) ==
    CASE s = "12.5" -> Returned(125000)
      [] s = "0.08" -> Returned(800)
      [] OTHER -> Raise("could not convert string to float: '" \o s \o "'")

\* One series of an instant-query result, and one of a range-query result.
GoodSample == [metric |-> [endpoint |-> "/products"], value |-> <<1732017600, "12.5">>]
BadSample == [metric |-> [endpoint |-> "/cart"], value |-> <<1732017600, "abc">>]
GoodSeries ==
    [metric |-> [endpoint |-> "/products"],
     values |-> << <<1732014000, "0.08">>, <<1732014030, "12.5">> >>]

\* What the HTTP GET of /api/v1/query comes back with: the backend rejects the
\* query, or answers with up to MaxSeries numeric samples, or with a sample
\* whose value is no number.
InstantResponses ==
    {[kind |-> "status_error", error |-> "parse error", result |-> <<>>],
     [kind |-> "success", error |-> "", result |-> <<BadSample>>]}
    \cup {[kind |-> "success", error |-> "", result |-> r] :
             r \in ListsUpTo({GoodSample}, MaxSeries)}

\* What the HTTP GET of /api/v1/query_range comes back with: no answer, or
\* one to MaxSeries series.
RangeResponses ==
    {[kind |-> "transport_error", error |-> "Connection refused", result |-> <<>>]}
    \cup {[kind |-> "success", error |-> "", result |-> r] :
             r \in ListsUpTo({GoodSeries}, MaxSeries) \ {<<>>}}

query_status_ignored(resp) ==
    IF resp.kind \in {"transport_error", "http_error"}
    THEN Raise("Failed to execute PromQL query: " \o resp.error)
    ELSE Returned([result |-> resp.result])

query(resp) ==
    IF resp.kind \in {"transport_error", "http_error"}
    THEN Raise("Failed to execute PromQL query: " \o resp.error)
    ELSE IF resp.kind = "status_error"
    THEN Raise("PromQL query failed: " \o resp.error)
    ELSE Returned([result |-> resp.result])

query_range(resp) ==
    IF resp.kind \in {"transport_error", "http_error"}
    THEN Raise("Failed to execute PromQL range query: " \o resp.error)
    ELSE IF resp.kind = "status_error"
    THEN Raise("PromQL range query failed: " \o resp.error)
    ELSE Returned([result |-> resp.result])

-----------------------------------------------------------------------------
(* TriageAgent *)

investigation_queries ==
    [a \in {"HighErrorRate", "SlowRequests", "DatabasePoolExhaustion",
            "MemoryLeak", "InventoryRaceCondition"} |->
        CASE a = "HighErrorRate" ->
                << <<"error_rate_by_endpoint", "rate(http_errors_5xx_total[5m])">>,
                   <<"total_request_rate", "rate(http_requests_total[5m])">>,
                   <<"error_percentage",
                     "(rate(http_errors_5xx_total[5m]) / rate(http_requests_total[5m])) * 100">> >>
          [] a = "SlowRequests" ->
                << <<"p50_latency",
                     "histogram_quantile(0.50, rate(http_request_duration_seconds_bucket[5m]))">>,
                   <<"p95_latency",
                     "histogram_quantile(0.95, rate(http_request_duration_seconds_bucket[5m]))">>,
                   <<"p99_latency",
                     "histogram_quantile(0.99, rate(http_request_duration_seconds_bucket[5m]))">>,
                   <<"request_rate_by_endpoint", "rate(http_requests_total[5m])">> >>
          [] a = "DatabasePoolExhaustion" ->
                << <<"current_pool_usage", "db_connection_pool_usage">>,
                   <<"pool_usage_5m_avg", "avg_over_time(db_connection_pool_usage[5m])">>,
                   <<"checkout_request_rate",
                     "rate(http_requests_total{endpoint=\"api.checkout\"}[5m])">> >>
          [] a = "MemoryLeak" ->
                << <<"current_leaked_objects", "memory_leak_objects">>,
                   <<"leak_growth_rate", "rate(memory_leak_objects[10m])">>,
                   <<"cart_request_rate",
                     "rate(http_requests_total{endpoint=\"api.add_to_cart\"}[5m])">> >>
          [] a = "InventoryRaceCondition" ->
                << <<"race_condition_rate", "rate(inventory_race_conditions_total[5m])">>,
                   <<"inventory_update_rate",
                     "rate(http_requests_total{endpoint=\"api.update_inventory\"}[5m])">>,
                   <<"race_condition_percentage",
                     "(rate(inventory_race_conditions_total[5m]) / rate(http_requests_total{endpoint=\"api.update_inventory\"}[5m])) * 100">> >>]

\* The alerts handed to investigate_alert: the mapped types, one unmapped
\* type, with and without the "annotations" part.
InvestigatedNames == DOMAIN investigation_queries \cup {"UnknownAlertX"}
TriageAlerts == [alertname : InvestigatedNames, has_annotations : BOOLEAN]

\* Python values stored in the metric maps.
None == [type |-> "NoneType"]
ErrorMarker(msg) == [type |-> "dict", error |-> msg]
List(items) == [type |-> "list", items |-> items]

FirstRaised(outcomes) ==
    outcomes[CHOOSE i \in DOMAIN outcomes :
                /\ outcomes[i].raised
                /\ \A j \in DOMAIN outcomes : outcomes[j].raised => i <= j]

InstantItem(item) ==
    LET v == float(item.value[2])
    IN  IF v.raised THEN v
        ELSE Returned([type |-> "dict", value |-> v.value, labels |-> item.metric])

_parse_query_result(result) ==
    LET parsed == [i \in DOMAIN result |-> InstantItem(result[i])]
    IN  IF result = <<>> THEN Returned(None)
        ELSE IF \E i \in DOMAIN parsed : parsed[i].raised THEN FirstRaised(parsed)
        ELSE IF Len(result) = 1 THEN Returned(parsed[1].value)
        ELSE Returned(List([i \in DOMAIN result |-> parsed[i].value]))

RangePoint(val) ==
    LET v == float(val[2])
    IN  IF v.raised THEN v
        ELSE Returned([timestamp |-> val[1], value |-> v.value])

RangeItem(item) ==
    LET points == [k \in DOMAIN item.values |-> RangePoint(item.values[k])]
    IN  IF \E k \in DOMAIN points : points[k].raised THEN FirstRaised(points)
        ELSE Returned([type |-> "dict", labels |-> item.metric,
                       values |-> [k \in DOMAIN points |-> points[k].value]])

_parse_range_result(result) ==
    LET parsed == [i \in DOMAIN result |-> RangeItem(result[i])]
    IN  IF result = <<>> THEN Returned(None)
        ELSE IF \E i \in DOMAIN parsed : parsed[i].raised THEN FirstRaised(parsed)
        ELSE IF Len(result) = 1 THEN Returned(parsed[1].value)
        ELSE Returned(List([i \in DOMAIN result |-> parsed[i].value]))

\* The body of "for metric_name, query in ...: try: ... except Exception as e":
\* what is stored under metric_name, and whether anything escapes the loop.
Stored(v) == [propagates |-> FALSE, stored |-> v, message |-> ""]
Escapes(msg) == [propagates |-> TRUE, stored |-> None, message |-> msg]

CurrentMetric_uncaught(resp) ==
    LET data == query(resp)
        parsed == _parse_query_result(data.value.result)
    IN  IF data.raised THEN Escapes(data.message)
        ELSE IF parsed.raised THEN Escapes(parsed.message)
        ELSE Stored(parsed.value)

CurrentMetric(resp) ==
    LET data == query(resp)
        parsed == _parse_query_result(data.value.result)
    IN  IF data.raised THEN Stored(ErrorMarker(data.message))
        ELSE IF parsed.raised THEN Stored(ErrorMarker(parsed.message))
        ELSE Stored(parsed.value)

TimeSeriesMetric(resp) ==
    LET data == query_range(resp)
        parsed == _parse_range_result(data.value.result)
    IN  IF data.raised THEN Stored(ErrorMarker(data.message))
        ELSE IF parsed.raised THEN Stored(ErrorMarker(parsed.message))
        ELSE Stored(parsed.value)

\* f"{x:.4f}" of a value held in ten-thousandths.
Format4f(v) ==
    LET frac == v % 10000
        pad == IF frac < 10 THEN "000" ELSE IF frac < 100 THEN "00"
               ELSE IF frac < 1000 THEN "0" ELSE ""
    IN  ToString(v \div 10000) \o "." \o pad \o ToString(frac)

SummaryPart(m) ==
    IF m.data.type = "dict" /\ "error" \in DOMAIN m.data
    THEN <<"  - " \o m.name \o ": Error - " \o m.data.error>>
    ELSE IF m.data.type = "dict" /\ "value" \in DOMAIN m.data
    THEN <<"  - " \o m.name \o ": " \o Format4f(m.data.value)>>
    ELSE IF m.data.type = "list"
    THEN <<"  - " \o m.name \o ": " \o ToString(Len(m.data.items)) \o " data points">>
    ELSE <<>>

RECURSIVE SummaryParts(_)
SummaryParts(ms) ==
    IF ms = <<>> THEN <<>> ELSE SummaryPart(Head(ms)) \o SummaryParts(Tail(ms))

RECURSIVE Join(_, _)
Join(parts, sep) ==
    IF parts = <<>> THEN ""
    ELSE IF Len(parts) = 1 THEN parts[1]
    ELSE parts[1] \o sep \o Join(Tail(parts), sep)

_generate_summary_padded(alert_name, ms) ==
    Join(<<"Investigation findings for " \o alert_name \o ":">>
         \o (IF ms = <<>> THEN <<"  (no metrics)">> ELSE SummaryParts(ms)), "\n")

_generate_summary(alert_name, ms) ==
    Join(<<"Investigation findings for " \o alert_name \o ":">> \o SummaryParts(ms), "\n")

\* What the log of issued queries keeps of a backend answer.
Answer(api, pair, resp) ==
    [api |-> api, metric_name |-> pair[1], promql |-> pair[2],
     kind |-> resp.kind, error |-> resp.error, series |-> Len(resp.result),
     numeric |-> \A i \in DOMAIN resp.result :
                    IF api = "query" THEN resp.result[i] = GoodSample
                    ELSE resp.result[i] = GoodSeries]

TriFrame == UNCHANGED <<monVars, parVars, diagVars, remVars, pipeVars, storeVars,
                       appVars>>

TriInit ==
    /\ t_pc = "instant"
    /\ alert \in TriageAlerts
    /\ t_idx = 1
    /\ metrics = <<>>
    /\ time_series = <<>>
    /\ issued = <<>>
    /\ report = NoReport

Mapped(alert_name) == alert_name \in DOMAIN investigation_queries

\* One iteration of the loop of _query_current_metrics.
QueryCurrentMetric ==
    /\ TriFrame
    /\ t_pc = "instant"
    /\ Mapped(alert.alertname)
    /\ t_idx <= Len(investigation_queries[alert.alertname])
    /\ \E resp \in InstantResponses :
        LET pair == investigation_queries[alert.alertname][t_idx]
            out == CurrentMetric(resp)
        IN  /\ issued' = Append(issued, Answer("query", pair, resp))
            /\ IF out.propagates
               THEN /\ t_pc' = "raised"
                    /\ report' = [status |-> "raised", message |-> out.message]
                    /\ UNCHANGED <<metrics, t_idx>>
               ELSE /\ metrics' = Append(metrics, [name |-> pair[1], data |-> out.stored])
                    /\ t_idx' = t_idx + 1
                    /\ UNCHANGED <<t_pc, report>>
    /\ UNCHANGED <<alert, time_series>>

\* "return metrics": at once for an unmapped alert, else after the loop.
ReturnMetrics ==
    /\ TriFrame
    /\ t_pc = "instant"
    /\ Mapped(alert.alertname) => t_idx > Len(investigation_queries[alert.alertname])
    /\ t_pc' = "range"
    /\ t_idx' = 1
    /\ UNCHANGED <<alert, metrics, time_series, issued, report>>

\* One iteration of the loop of _query_time_series.
QueryTimeSeries ==
    /\ TriFrame
    /\ t_pc = "range"
    /\ Mapped(alert.alertname)
    /\ t_idx <= Len(investigation_queries[alert.alertname])
    /\ \E resp \in RangeResponses :
        LET pair == investigation_queries[alert.alertname][t_idx]
            out == TimeSeriesMetric(resp)
        IN  /\ issued' = Append(issued, Answer("query_range", pair, resp))
            /\ IF out.propagates
               THEN /\ t_pc' = "raised"
                    /\ report' = [status |-> "raised", message |-> out.message]
                    /\ UNCHANGED <<time_series, t_idx>>
               ELSE /\ time_series' = Append(time_series, [name |-> pair[1], data |-> out.stored])
                    /\ t_idx' = t_idx + 1
                    /\ UNCHANGED <<t_pc, report>>
    /\ UNCHANGED <<alert, metrics>>

\* "return time_series" (at once for an unmapped alert, else after the loop)
\* and the report literal of investigate_alert; alert["annotations"] raises
\* KeyError for an alert without that part.
BuildReport ==
    /\ TriFrame
    /\ t_pc = "range"
    /\ Mapped(alert.alertname) => t_idx > Len(investigation_queries[alert.alertname])
    /\ IF alert.has_annotations
       THEN /\ t_pc' = "done"
            /\ report' = [status |-> "returned",
                          alert_info |-> [name |-> alert.alertname],
                          metrics |-> metrics,
                          time_series |-> time_series,
                          investigation_summary |->
                              _generate_summary(alert.alertname, metrics)]
       ELSE /\ t_pc' = "raised"
            /\ report' = [status |-> "raised", message |-> "'annotations'"]
    /\ UNCHANGED <<alert, t_idx, metrics, time_series, issued>>

TriNext ==
    \/ QueryCurrentMetric
    \/ ReturnMetrics
    \/ QueryTimeSeries
    \/ BuildReport

InitTriage ==
    TriInit /\ MonInit /\ ParIdle /\ DiagIdle /\ RemIdle
        /\ PipeIdle /\ StoreIdle /\ AppIdle

SpecTriage == InitTriage /\ [][TriNext]_vars

-----------------------------------------------------------------------------
(* Claims about TriageAgent.investigate_alert *)

\* The backend made this query fail: it did not answer with success, or a
\* sample of the answer is no number.
Failing(a) == a.kind # "success" \/ ~a.numeric
Succeeding(a) == a.kind = "success" /\ a.numeric /\ a.series > 0

IsErrorMarker(d) == d.type = "dict" /\ "error" \in DOMAIN d
IsPopulated(d) == d.type = "list" \/ (d.type = "dict" /\ "error" \notin DOMAIN d)

IssuedTo(api) == SelectSeq(issued, LAMBDA a : a.api = api)

\* The map holds one entry per query issued, under the labels of the mapping
\* in order; an entry is an error marker iff its query failed and a populated
\* value iff its query succeeded with at least one series.
Recorded(map, answers, queries) ==
    /\ Len(map) = Len(answers)
    /\ Len(map) <= Len(queries)
    /\ \A i \in DOMAIN map :
        /\ map[i].name = queries[i][1]
        /\ answers[i].metric_name = queries[i][1]
        /\ answers[i].promql = queries[i][2]
        /\ IsErrorMarker(map[i].data) <=> Failing(answers[i])
        /\ IsPopulated(map[i].data) <=> Succeeding(answers[i])

\* C4: for a mapped alert type a failing instant or range query never keeps
\* the queries of the other labels from being issued and recorded: the failing
\* label is stored as an error marker, the others as what the backend
\* answered, both loops run over every label, and no query failure raises
\* (the only exception investigate_alert lets out is the KeyError of an alert
\* without annotations, whatever the queries did).
C4_FailingMetricIsolated ==
    Mapped(alert.alertname) =>
        LET queries == investigation_queries[alert.alertname]
        IN  /\ Recorded(metrics, IssuedTo("query"), queries)
            /\ Recorded(time_series, IssuedTo("query_range"), queries)
            /\ t_pc = "range" => Len(metrics) = Len(queries)
            /\ t_pc \in {"done", "raised"} =>
                  /\ Len(metrics) = Len(queries)
                  /\ Len(time_series) = Len(queries)
            /\ t_pc = "raised" =>
                  ~alert.has_annotations /\ report.message = "'annotations'"
            /\ t_pc = "done" =>
                  /\ report.status = "returned"
                  /\ report.metrics = metrics
                  /\ report.time_series = time_series

ErrorMarkers(map) == {i \in DOMAIN map : IsErrorMarker(map[i].data)}
PopulatedValues(map) == {i \in DOMAIN map : IsPopulated(map[i].data)}

\* One failing and one succeeding metric (the third answered with no series):
\* exactly one error marker, recorded first, and one populated value after it.
C4_Witness ==
    /\ t_pc = "done"
    /\ alert.alertname = "HighErrorRate"
    /\ ErrorMarkers(report.metrics) = {1}
    /\ report.metrics[1].data = ErrorMarker("PromQL query failed: parse error")
    /\ PopulatedValues(report.metrics) = {2}
    /\ report.metrics[3].data = None
    /\ ErrorMarkers(report.time_series) = {2}
    /\ PopulatedValues(report.time_series) = {1, 3}

\* C5: for an alert whose type is not a key of investigation_queries no
\* backend query is issued, investigate_alert does not fail (for an alert that
\* carries its annotations part) and the report has an empty metrics map, an
\* empty time_series map and the one-line summary
\* "Investigation findings for <alert name>:".
C5_UnmappedAlertEmptyReport ==
    ~Mapped(alert.alertname) =>
        /\ issued = <<>>
        /\ metrics = <<>>
        /\ time_series = <<>>
        /\ alert.has_annotations => t_pc # "raised"
        /\ t_pc = "done" =>
              /\ report.status = "returned"
              /\ report.metrics = <<>>
              /\ report.time_series = <<>>
              /\ report.investigation_summary =
                    "Investigation findings for " \o alert.alertname \o ":"

C5_Witness ==
    /\ t_pc = "done"
    /\ alert.alertname = "UnknownAlertX"
    /\ report.investigation_summary = "Investigation findings for UnknownAlertX:"
    /\ issued = <<>>

-----------------------------------------------------------------------------
(* Python text: a str is the sequence of its code points *)

Str(u) == [i \in 1..Len(u) |-> SubSeq(u, i, i)]

Bullet == "U+2022"                      \* the one code point of the bullet sign
Whitespace == {" ", "\t", "\n", "\r"}   \* what str.strip() removes
Digits == {"0", "1", "2", "3", "4", "5", "6", "7", "8", "9"}
LowerCase == Str("abcdefghijklmnopqrstuvwxyz")
UpperCase == Str("ABCDEFGHIJKLMNOPQRSTUVWXYZ")

\* The table of a case conversion, letter by letter.
Recase(from, to) ==
    [c \in {from[k] : k \in DOMAIN from} |->
        to[CHOOSE k \in DOMAIN from : from[k] = c]]
ToUpper == Recase(LowerCase, UpperCase)
ToLower == Recase(UpperCase, LowerCase)
upper(s) == [i \in DOMAIN s |-> IF s[i] \in DOMAIN ToUpper THEN ToUpper[s[i]] ELSE s[i]]
lower(s) == [i \in DOMAIN s |-> IF s[i] \in DOMAIN ToLower THEN ToLower[s[i]] ELSE s[i]]

RECURSIVE lstrip(_, _)
lstrip(s, chars) ==
    IF s # <<>> /\ s[1] \in chars THEN lstrip(Tail(s), chars) ELSE s

RECURSIVE rstrip(_, _)
rstrip(s, chars) ==
    IF s # <<>> /\ s[Len(s)] \in chars
    THEN rstrip(SubSeq(s, 1, Len(s) - 1), chars)
    ELSE s

strip(s) == rstrip(lstrip(s, Whitespace), Whitespace)

\* sub in s
Contains(s, sub) ==
    \/ sub = <<>>
    \/ \E i \in 0..(Len(s) - Len(sub)) :
          s[i + 1] = sub[1] /\ SubSeq(s, i + 1, i + Len(sub)) = sub

\* s.split(sep) for a one-character separator
RECURSIVE split(_, _)
split(s, sep) ==
    IF \E i \in DOMAIN s : s[i] = sep
    THEN LET i == CHOOSE k \in DOMAIN s :
                      s[k] = sep /\ \A j \in 1..(k - 1) : s[j] # sep
         IN  <<SubSeq(s, 1, i - 1)>> \o split(SubSeq(s, i + 1, Len(s)), sep)
    ELSE <<s>>

\* sep.join(parts)
RECURSIVE join(_, _)
join(parts, sep) ==
    IF parts = <<>> THEN <<>>
    ELSE IF Len(parts) = 1 THEN parts[1]
    ELSE parts[1] \o sep \o join(Tail(parts), sep)

\* s[:n]
Prefix(s, n) == SubSeq(s, 1, IF Len(s) < n THEN Len(s) ELSE n)

-----------------------------------------------------------------------------
(* DiagnosticAgent._parse_diagnosis *)

FallbackChars == 500

EmptyResult_low ==
    [root_cause |-> <<>>, evidence |-> <<>>, recommendations |-> <<>>,
     confidence |-> "low"]

EmptyResult ==
    [root_cause |-> <<>>, evidence |-> <<>>, recommendations |-> <<>>,
     confidence |-> "medium"]

\* The keywords of the section headers and of the confidence grades.
Keyword ==
    [root_cause |-> Str("ROOT CAUSE"), evidence |-> Str("EVIDENCE"),
     supporting |-> Str("SUPPORTING"), recommend |-> Str("RECOMMEND"),
     action |-> Str("ACTION"), confidence |-> Str("CONFIDENCE"),
     high |-> Str("high"), low |-> Str("low"), medium |-> Str("medium")]

Header_confidence_is_content(line) ==
    LET u == upper(line)
    IN  IF Contains(u, Keyword.root_cause) THEN "root_cause"
        ELSE IF Contains(u, Keyword.evidence) \/ Contains(u, Keyword.supporting)
             THEN "evidence"
        ELSE IF Contains(u, Keyword.recommend) \/ Contains(u, Keyword.action)
             THEN "recommendations"
        ELSE "None"

Header_recommend_first(line) ==
    LET u == upper(line)
    IN  IF Contains(u, Keyword.root_cause) THEN "root_cause"
        ELSE IF Contains(u, Keyword.recommend) \/ Contains(u, Keyword.action)
             THEN "recommendations"
        ELSE IF Contains(u, Keyword.evidence) \/ Contains(u, Keyword.supporting)
             THEN "evidence"
        ELSE IF Contains(u, Keyword.confidence) THEN "confidence"
        ELSE "None"

\* "Detect sections": the section a (stripped) line switches to, "None" for a
\* line that is no header.
Header(line) ==
    LET u == upper(line)
    IN  IF Contains(u, Keyword.root_cause) THEN "root_cause"
        ELSE IF Contains(u, Keyword.evidence) \/ Contains(u, Keyword.supporting)
             THEN "evidence"
        ELSE IF Contains(u, Keyword.recommend) \/ Contains(u, Keyword.action)
             THEN "recommendations"
        ELSE IF Contains(u, Keyword.confidence) THEN "confidence"
        ELSE "None"

IsBullet(line) == line[1] \in {"-", Bullet}

\* A non-empty line of the root_cause or the evidence section.
Accumulate_always(field, line) ==
    IF IsBullet(line) THEN field \o strip(Tail(line)) \o <<" ">>
    ELSE field \o line \o <<" ">>
Accumulate(field, line) ==
    IF IsBullet(line) THEN field \o strip(Tail(line)) \o <<" ">>
    ELSE IF field # <<>> /\ line[1] # "#" THEN field \o line \o <<" ">>
    ELSE field

\* A non-empty line of the recommendations section.
Recommendation(recommendations, line) ==
    IF IsBullet(line) \/ line[1] \in Digits
    THEN LET clean_line ==
                 strip(lstrip(line, {"-", Bullet, ".", " "} \cup Digits))
         IN  IF clean_line # <<>> THEN Append(recommendations, clean_line)
             ELSE recommendations
    ELSE recommendations

\* A non-empty line of the confidence section.
Confidence_low_first(confidence, line) ==
    LET line_lower == lower(line)
    IN  IF Contains(line_lower, Keyword.low) THEN "low"
        ELSE IF Contains(line_lower, Keyword.high) THEN "high"
        ELSE IF Contains(line_lower, Keyword.medium) THEN "medium"
        ELSE confidence
Confidence_first_wins(confidence, line) ==
    LET line_lower == lower(line)
    IN  IF confidence # "medium" THEN confidence
        ELSE IF Contains(line_lower, Keyword.high) THEN "high"
        ELSE IF Contains(line_lower, Keyword.low) THEN "low"
        ELSE confidence
Confidence(confidence, line) ==
    LET line_lower == lower(line)
    IN  IF Contains(line_lower, Keyword.high) THEN "high"
        ELSE IF Contains(line_lower, Keyword.low) THEN "low"
        ELSE IF Contains(line_lower, Keyword.medium) THEN "medium"
        ELSE confidence

\* "Parse content": what a (stripped) line that is no header does to result.
Content(res, section, line) ==
    IF line = <<>> THEN res
    ELSE IF section = "root_cause"
         THEN [res EXCEPT !.root_cause = Accumulate(@, line)]
    ELSE IF section = "evidence"
         THEN [res EXCEPT !.evidence = Accumulate(@, line)]
    ELSE IF section = "recommendations"
         THEN [res EXCEPT !.recommendations = Recommendation(@, line)]
    ELSE IF section = "confidence"
         THEN [res EXCEPT !.confidence = Confidence(@, line)]
    ELSE res

\* "Fallback: if parsing failed, use entire text as root cause"
Fallback_untruncated(res, text) ==
    IF strip(res.root_cause) = <<>> THEN [res EXCEPT !.root_cause = text]
    ELSE res
Fallback(res, text) ==
    IF strip(res.root_cause) = <<>>
    THEN [res EXCEPT !.root_cause = Prefix(text, FallbackChars)]
    ELSE res

\* The loop over the lines, from line i on.
RECURSIVE ParseLines(_, _, _, _)
ParseLines(res, section, ls, i) ==
    IF i > Len(ls) THEN res
    ELSE LET line == strip(ls[i])
         IN  IF Header(line) # "None"
             THEN ParseLines(res, Header(line), ls, i + 1)
             ELSE ParseLines(Content(res, section, line), section, ls, i + 1)

_parse_diagnosis(text) ==
    Fallback(ParseLines(EmptyResult, "None", split(text, "\n"), 1), text)

\* The lines engine responses are made of.
ResponseLines ==
    {Str("ROOT CAUSE:"),
     Str("**Supporting Evidence**"),
     Str("Recommended Actions:"),
     Str("Confidence Level: High"),
     Str("- Database connection pool exhausted"),
     <<Bullet>> \o Str(" Pool size is 10"),
     Str("The pool is exhausted"),
     Str("# Details"),
     <<>>,
     Str("  -  "),
     Str("1. Restart the service"),
     Str("- 3 replicas more"),
     Str("low to HIGH"),
     Str("High, medium or Low")}

Filler == [i \in 1..FillerLen |-> "x"]

\* Responses of up to MaxLines lines, and responses longer than the fallback
\* keeps: a filler line followed by fewer lines.
ShortResponses(n) == {join(ls, <<"\n">>) : ls \in ListsUpTo(ResponseLines, n)}
Responses ==
    ShortResponses(MaxLines)
    \cup {Filler \o <<"\n">> \o t : t \in ShortResponses(MaxLines - 1)}

ParFrame == UNCHANGED <<monVars, triVars, diagVars, remVars, pipeVars, storeVars,
                       appVars>>

ParInit ==
    /\ p_pc = "loop"
    /\ diagnosis_text \in Responses
    /\ lines = split(diagnosis_text, "\n")
    /\ line_no = 1
    /\ current_section = "None"
    /\ p_result = EmptyResult

\* for line in lines: line = line.strip(); a header line switches the section
DetectSection ==
    /\ p_pc = "loop"
    /\ line_no <= Len(lines)
    /\ LET line == strip(lines[line_no])
           section == Header(line)
       IN  section # "None" /\ current_section' = section
    /\ line_no' = line_no + 1
    /\ UNCHANGED <<p_pc, diagnosis_text, lines, p_result>>
    /\ ParFrame

\* ... any other line is content of the current section
ParseContent ==
    /\ p_pc = "loop"
    /\ line_no <= Len(lines)
    /\ LET line == strip(lines[line_no])
       IN  /\ Header(line) = "None"
           /\ p_result' = Content(p_result, current_section, line)
    /\ line_no' = line_no + 1
    /\ UNCHANGED <<p_pc, diagnosis_text, lines, current_section>>
    /\ ParFrame

\* after the loop: the fallback, and return result
ReturnResult ==
    /\ p_pc = "loop"
    /\ line_no > Len(lines)
    /\ p_result' = Fallback(p_result, diagnosis_text)
    /\ p_pc' = "done"
    /\ UNCHANGED <<diagnosis_text, lines, line_no, current_section>>
    /\ ParFrame

ParNext ==
    \/ DetectSection
    \/ ParseContent
    \/ ReturnResult

InitParse ==
    ParInit /\ MonInit /\ TriIdle /\ DiagIdle /\ RemIdle
        /\ PipeIdle /\ StoreIdle /\ AppIdle

SpecParse == InitParse /\ [][ParNext]_vars

\* Lines that hold the keywords of several sections, or a grade, in content.
SectionLines ==
    {Str("ROOT CAUSE:"),
     Str("Confidence Level: High"),
     Str("- Evidence supports action with confidence"),
     Str("- No action: root cause unclear"),
     Str("Recommend more confidence"),
     Str("- Restart the slow service"),
     Str("Medium"),
     Str("- Pool size is 10"),
     Str("high or low")}

SectionResponses ==
    {join(ls, <<"\n">>) : ls \in ListsUpTo(SectionLines, MaxLines)}

SectionInit ==
    /\ p_pc = "loop"
    /\ diagnosis_text \in SectionResponses
    /\ lines = split(diagnosis_text, "\n")
    /\ line_no = 1
    /\ current_section = "None"
    /\ p_result = EmptyResult

InitSections ==
    SectionInit /\ MonInit /\ TriIdle /\ DiagIdle /\ RemIdle
        /\ PipeIdle /\ StoreIdle /\ AppIdle

\* The parser on responses whose content lines hold section keywords.
SpecSections == InitSections /\ [][ParNext]_vars

-----------------------------------------------------------------------------
(* Claims about DiagnosticAgent._parse_diagnosis *)

StrippedLine(i) == strip(lines[i])
IsHeader(i) == Header(StrippedLine(i)) # "None"

\* The section in force when line i is read: that of the last header before it.
RECURSIVE SectionAt(_)
SectionAt(i) ==
    IF i = 1 THEN "None"
    ELSE IF IsHeader(i - 1) THEN Header(StrippedLine(i - 1))
    ELSE SectionAt(i - 1)

\* The non-empty lines that follow a header of the section, up to the next
\* header.
BodyLines(section) ==
    {i \in DOMAIN lines :
        ~IsHeader(i) /\ StrippedLine(i) # <<>> /\ SectionAt(i) = section}

NoHeaderFound == \A i \in DOMAIN lines : ~IsHeader(i)

\* C6: when the parser finds no section header in the response, or finds no
\* body line under a ROOT CAUSE header, the returned root cause is the first
\* 500 characters of the raw response; and whatever the response, a non-empty
\* response gives a non-empty root cause.
C6_FallbackFirst500 ==
    p_pc = "done" =>
        /\ (NoHeaderFound \/ BodyLines("root_cause") = {}) =>
              p_result.root_cause = Prefix(diagnosis_text, FallbackChars)
        /\ diagnosis_text # <<>> => p_result.root_cause # <<>>

\* A response longer than 500 characters with a ROOT CAUSE header and no body:
\* the root cause is cut inside the header line.
C6_Witness ==
    /\ p_pc = "done"
    /\ lines = <<Filler, Str("ROOT CAUSE:"), <<>> >>
    /\ Len(diagnosis_text) > FallbackChars
    /\ p_result.root_cause = Filler \o <<"\n">> \o Str("ROOT")

ContentStep ==
    /\ p_pc = "loop"
    /\ line_no \in DOMAIN lines
    /\ ~IsHeader(line_no)
    /\ StrippedLine(line_no) # <<>>
    /\ current_section \in {"root_cause", "evidence"}

FieldOf(res, section) ==
    IF section = "root_cause" THEN res.root_cause ELSE res.evidence

\* C7 as stated: after a ROOT CAUSE (or EVIDENCE / SUPPORTING) header every
\* non-empty line up to the next header is accumulated into the field,
\* bulleted or not, field still empty or not.
C7_EveryLineAccumulated ==
    [][ContentStep =>
          Len(FieldOf(p_result', current_section))
              > Len(FieldOf(p_result, current_section))]_vars

\* C7, amended: after a ROOT CAUSE (or EVIDENCE / SUPPORTING) header a
\* non-empty line up to the next header is accumulated into the field iff it
\* starts with a bullet marker ('-' or the bullet sign), which is removed, or
\* the field is already non-empty and the line does not start with '#'; any
\* other line leaves the field as it is.
C7_BulletOrContinuation ==
    [][ContentStep =>
          LET line == StrippedLine(line_no)
              field == FieldOf(p_result, current_section)
              after == FieldOf(p_result', current_section)
          IN  /\ IsBullet(line) => after = field \o strip(Tail(line)) \o <<" ">>
              /\ (~IsBullet(line) /\ field # <<>> /\ line[1] # "#") =>
                    after = field \o line \o <<" ">>
              /\ (~IsBullet(line) /\ (field = <<>> \/ line[1] = "#")) =>
                    after = field]_vars

\* The plain line right after the header is dropped, the bulleted line after
\* it is kept.
C7_Witness ==
    /\ p_pc = "done"
    /\ lines = <<Str("ROOT CAUSE:"), Str("The pool is exhausted"),
                 Str("- Database connection pool exhausted")>>
    /\ p_result.root_cause = Str("Database connection pool exhausted ")

\* The text of a line with only its bullet marker removed: a leading '-' or
\* bullet sign, or a leading number and period.
MarkerRemoved(line) ==
    IF IsBullet(line) THEN strip(Tail(line))
    ELSE LET rest == lstrip(line, Digits)
         IN  IF line[1] \in Digits /\ rest # <<>> /\ rest[1] = "."
             THEN strip(Tail(rest))
             ELSE line

\* The entries the recommendation lines among the first n lines stand for.
RECURSIVE EntriesUpTo(_)
EntriesUpTo(n) ==
    IF n = 0 THEN <<>>
    ELSE IF /\ n \in BodyLines("recommendations")
            /\ (IsBullet(StrippedLine(n)) \/ StrippedLine(n)[1] \in Digits)
            /\ MarkerRemoved(StrippedLine(n)) # <<>>
         THEN Append(EntriesUpTo(n - 1), MarkerRemoved(StrippedLine(n)))
    ELSE EntriesUpTo(n - 1)

\* C25: the recommendation sequence holds one entry per recommendation line
\* of the response, in the order of the lines, each entry the text of its line
\* with only the bullet marker removed.
C25_RecommendationEntries ==
    p_pc = "done" => p_result.recommendations = EntriesUpTo(Len(lines))

ConfidenceStep ==
    /\ p_pc = "loop"
    /\ line_no \in DOMAIN lines
    /\ ~IsHeader(line_no)
    /\ StrippedLine(line_no) # <<>>
    /\ current_section = "confidence"

\* C30: in the confidence section the keywords are looked for in each line in
\* the order high, low, medium: a line holding 'high' sets the confidence to
\* 'high' also when it holds 'low' (before or after it, in any letter case); a
\* line without 'high' holding 'low' sets 'low'; a line with none of the three
\* leaves the confidence as it is.
C30_HighBeforeLow ==
    [][ConfidenceStep =>
          LET l == lower(StrippedLine(line_no))
          IN  /\ Contains(l, Str("high")) => p_result'.confidence = "high"
              /\ (~Contains(l, Str("high")) /\ Contains(l, Str("low"))) =>
                    p_result'.confidence = "low"
              /\ (~Contains(l, Str("high")) /\ ~Contains(l, Str("low"))
                    /\ ~Contains(l, Str("medium"))) =>
                    p_result'.confidence = p_result.confidence]_vars

\* 'low' before 'HIGH' in one line, then 'High' before 'Low' in the next.
C30_Witness ==
    /\ p_pc = "done"
    /\ lines = <<Str("Confidence Level: High"), Str("low to HIGH"),
                 Str("High, medium or Low")>>
    /\ p_result.confidence = "high"

\* The line holds one of the header keywords, in any letter case.
HasKeyword(line) ==
    \E k \in {"ROOT CAUSE", "EVIDENCE", "SUPPORTING", "RECOMMEND", "ACTION",
               "CONFIDENCE"} : Contains(upper(line), Str(k))

LineStep == p_pc = "loop" /\ line_no \in DOMAIN lines

\* C35: a line that holds a header keyword only switches the current section:
\* nothing of it is added to any field of the result, so a grade written on
\* the CONFIDENCE header line itself does not set the confidence.
C35_HeaderLineOnlySwitches ==
    [][(LineStep /\ HasKeyword(StrippedLine(line_no))) =>
          /\ p_result' = p_result
          /\ current_section' # "None"
          /\ line_no' = line_no + 1]_vars

\* 'High' on the header line is not read: the confidence stays 'medium'.
C35_Witness ==
    /\ p_pc = "done"
    /\ lines = <<Str("ROOT CAUSE:"), Str("- Pool size is 10"),
                 Str("Confidence Level: High")>>
    /\ p_result.root_cause = Str("Pool size is 10 ")
    /\ p_result.confidence = "medium"

\* The grade a line of the confidence section stands for, "none" without one.
Grade(line) ==
    IF Contains(lower(line), Str("high")) THEN "high"
    ELSE IF Contains(lower(line), Str("low")) THEN "low"
    ELSE IF Contains(lower(line), Str("medium")) THEN "medium"
    ELSE "none"

GradeLines == {i \in BodyLines("confidence") : Grade(StrippedLine(i)) # "none"}

LastOf(S) == CHOOSE i \in S : \A j \in S : j <= i

\* C36: when several lines of the confidence section(s) hold a grade keyword,
\* the confidence returned is the grade of the last such line of the response
\* ('medium' when there is none).
C36_LastGradeWins ==
    p_pc = "done" =>
        p_result.confidence =
            (IF GradeLines = {} THEN "medium"
             ELSE Grade(StrippedLine(LastOf(GradeLines))))

\* 'high or low' gives high, the later 'slow' gives low.
C36_Witness ==
    /\ p_pc = "done"
    /\ lines = <<Str("Confidence Level: High"), Str("high or low"),
                 Str("- Restart the slow service")>>
    /\ p_result.confidence = "low"

\* The section after a line, by the priority of the keywords it holds.
SectionAfter(section, line) ==
    LET u == upper(line)
    IN  IF Contains(u, Str("ROOT CAUSE")) THEN "root_cause"
        ELSE IF Contains(u, Str("EVIDENCE")) \/ Contains(u, Str("SUPPORTING"))
             THEN "evidence"
        ELSE IF Contains(u, Str("RECOMMEND")) \/ Contains(u, Str("ACTION"))
             THEN "recommendations"
        ELSE IF Contains(u, Str("CONFIDENCE")) THEN "confidence"
        ELSE section

\* C37: the section after each line follows a fixed priority over substring
\* matches: ROOT CAUSE, then EVIDENCE or SUPPORTING, then RECOMMEND or ACTION,
\* then CONFIDENCE; any other line leaves the section as it is. This holds for
\* every line, bulleted content lines that merely hold a keyword included.
C37_SectionPriority ==
    [][LineStep =>
          current_section' = SectionAfter(current_section, StrippedLine(line_no))]_vars

\* A bulleted line with EVIDENCE, ACTION and CONFIDENCE enters evidence; one
\* with ACTION and ROOT CAUSE enters root_cause.
C37_Witness ==
    /\ p_pc = "done"
    /\ lines = <<Str("- Evidence supports action with confidence"),
                 Str("- Pool size is 10"),
                 Str("- No action: root cause unclear")>>
    /\ p_result.evidence = Str("Pool size is 10 ")
    /\ current_section = "root_cause"

-----------------------------------------------------------------------------
(* RemediationAgent.propose_fix *)

ActionTypes == {"code_change", "terminal_command", "manual_step"}
RiskLevels == {"low", "medium", "high"}

\* JSON values as Python has them after parsing.
Dict(fields) == [type |-> "dict", fields |-> fields]
JsonList(items) == [type |-> "list", items |-> items]

CodeChangePlan ==
    Dict([action_type |-> "code_change",
          description |-> "Increase the connection pool size",
          content |-> "pool_size = 20",
          file_path |-> "src/app/database.py",
          risk_level |-> "low"])
CommandPlan ==
    Dict([action_type |-> "terminal_command",
          description |-> "Restart the service",
          content |-> "systemctl restart app",
          risk_level |-> "medium"])
ManualPlan ==
    Dict([action_type |-> "manual_step",
          description |-> "Check the database",
          content |-> "Look at the slow query log",
          risk_level |-> "high"])
ValidPlans == {CodeChangePlan, CommandPlan, ManualPlan}

\* JSON an engine can answer with that is no plan of the schema.
RebootPlan ==
    Dict([action_type |-> "reboot",
          description |-> "Reboot the host",
          content |-> "reboot",
          risk_level |-> "extreme"])
WrappedPlan == Dict([actions |-> <<CodeChangePlan>>])
EmptyObject == Dict([x \in {} |-> ""])
PlanList == JsonList(<<CommandPlan>>)
JsonValues ==
    ValidPlans \cup {RebootPlan, WrappedPlan, EmptyObject, PlanList}

\* What the content of an engine answer amounts to: what
\* JsonOutputParser.parse makes of it, and what the ```json block holds.
ParserRaises == [kind |-> "raise", message |-> "Invalid json output"]
Parsed(v) == [kind |-> "json", value |-> v]
NoBlock == [kind |-> "absent"]
InvalidBlock == [kind |-> "invalid"]
Block(v) == [kind |-> "json", value |-> v]

ChainOutcomes ==
    {[kind |-> "raised", message |-> "Connection refused"]}
    \cup [kind : {"content"},
          direct : {ParserRaises} \cup {Parsed(v) : v \in JsonValues},
          fenced : {NoBlock, InvalidBlock} \cup {Block(v) : v \in JsonValues}]

\* The except handler of propose_fix.
SafeDefault ==
    Dict([action_type |-> "manual_step",
          description |-> "Failed to generate automated fix",
          content |-> "Please investigate manually. AI generation failed.",
          risk_level |-> "high"])

\* response = self.parser.parse(content), then the log line that calls
\* response.keys()
FirstParse(resp) ==
    IF resp.direct.kind = "raise" THEN Raise(resp.direct.message)
    ELSE IF resp.direct.value.type # "dict"
         THEN Raise("'list' object has no attribute 'keys'")
    ELSE Returned(resp.direct.value)

\* The handler of the failed first parse: re.search for the ```json block,
\* json.loads of its contents, else raise parse_error into the outer handler.
FencedFallback_ignored(resp) == SafeDefault
FencedFallback(resp) ==
    IF resp.fenced.kind = "json" THEN resp.fenced.value ELSE SafeDefault

RemFrame == UNCHANGED <<monVars, triVars, parVars, diagVars, pipeVars, storeVars,
                       appVars>>

RemInit ==
    /\ r_pc = "invoke"
    /\ chain_calls = 0
    /\ llm_response = [kind |-> "none"]
    /\ parse_error = "None"
    /\ plan = [status |-> "none"]

\* llm_response = self.chain.invoke({...})
InvokeChain ==
    /\ r_pc = "invoke"
    /\ \E out \in ChainOutcomes :
        /\ llm_response' = out
        /\ IF out.kind = "raised"
           THEN /\ plan' = [status |-> "returned", value |-> SafeDefault]
                /\ r_pc' = "done"
           ELSE /\ plan' = plan
                /\ r_pc' = "parse"
    /\ chain_calls' = chain_calls + 1
    /\ UNCHANGED parse_error
    /\ RemFrame

\* try: response = self.parser.parse(...); ...; return response
ParsePlan ==
    /\ r_pc = "parse"
    /\ LET first == FirstParse(llm_response)
       IN  IF first.raised
           THEN /\ parse_error' = first.message
                /\ r_pc' = "fallback"
                /\ plan' = plan
           ELSE /\ plan' = [status |-> "returned", value |-> first.value]
                /\ r_pc' = "done"
                /\ parse_error' = parse_error
    /\ UNCHANGED <<chain_calls, llm_response>>
    /\ RemFrame

\* except Exception as parse_error: the fenced block, or the safe default
ExtractFencedBlock ==
    /\ r_pc = "fallback"
    /\ plan' = [status |-> "returned", value |-> FencedFallback(llm_response)]
    /\ r_pc' = "done"
    /\ UNCHANGED <<chain_calls, llm_response, parse_error>>
    /\ RemFrame

RemNext ==
    \/ InvokeChain
    \/ ParsePlan
    \/ ExtractFencedBlock

InitRemediation ==
    RemInit /\ MonInit /\ TriIdle /\ ParIdle /\ DiagIdle
        /\ PipeIdle /\ StoreIdle /\ AppIdle

SpecRemediation == InitRemediation /\ [][RemNext]_vars

-----------------------------------------------------------------------------
(* Claims about RemediationAgent.propose_fix *)

WellFormed(v) ==
    /\ v.type = "dict"
    /\ {"action_type", "description", "content", "risk_level"}
          \subseteq DOMAIN v.fields
    /\ v.fields.action_type \in ActionTypes
    /\ v.fields.risk_level \in RiskLevels

\* C8: propose_fix never raises and whatever it returns is a well-formed
\* RemediationPlan: a description, a content, an action type among code_change,
\* terminal_command, manual_step and a risk level among low, medium, high.
C8_AlwaysWellFormedPlan ==
    /\ r_pc \in {"idle", "invoke", "parse", "fallback", "done"}
    /\ r_pc = "done" => plan.status = "returned" /\ WellFormed(plan.value)

\* C9: when the first parse of the engine response fails, a fenced JSON block
\* holding a valid plan is returned as it is; with no fenced block, or one
\* whose contents are no JSON, the safe default is returned: manual_step,
\* "Failed to generate automated fix", risk high.
C9_FencedBlockOrSafeDefault ==
    (r_pc = "done" /\ llm_response.kind = "content"
        /\ FirstParse(llm_response).raised) =>
        /\ (llm_response.fenced.kind = "json"
              /\ llm_response.fenced.value \in ValidPlans) =>
              plan.value = llm_response.fenced.value
        /\ llm_response.fenced.kind \in {"absent", "invalid"} =>
              /\ plan.value.type = "dict"
              /\ plan.value.fields.action_type = "manual_step"
              /\ plan.value.fields.description
                    = "Failed to generate automated fix"
              /\ plan.value.fields.risk_level = "high"

C9_Witness ==
    /\ r_pc = "done"
    /\ llm_response.kind = "content"
    /\ llm_response.direct = ParserRaises
    /\ llm_response.fenced = Block(CodeChangePlan)
    /\ parse_error = "Invalid json output"
    /\ plan.value = CodeChangePlan

-----------------------------------------------------------------------------
(* DiagnosticAgent.diagnose *)

ItemLimit == 5          \* metric_data[:5]
SearchLimit == 3        \* search_similar(..., limit=3)

\* One entry of the metrics map, in the text handed to the engine.
MetricItemLine(item) ==
    Str("    ") \o <<Bullet>>
    \o Str(" " \o (IF "endpoint" \in DOMAIN item.labels
                   THEN item.labels.endpoint ELSE "N/A")
           \o ": " \o Format4f(item.value))

MetricLines(m) ==
    IF m.data.type = "dict" /\ "error" \in DOMAIN m.data
    THEN <<Str("- " \o m.name \o ": ERROR - " \o m.data.error)>>
    ELSE IF m.data.type = "dict" /\ "value" \in DOMAIN m.data
    THEN <<Str("- " \o m.name \o ": " \o Format4f(m.data.value))>>
    ELSE IF m.data.type = "list"
    THEN <<Str("- " \o m.name \o ":")>>
         \o [i \in 1..(IF Len(m.data.items) < ItemLimit
                       THEN Len(m.data.items) ELSE ItemLimit) |->
                MetricItemLine(m.data.items[i])]
         \o (IF Len(m.data.items) > ItemLimit
             THEN <<Str("    ") \o <<Bullet>>
                    \o Str(" ... and "
                           \o ToString(Len(m.data.items) - ItemLimit)
                           \o " more")>>
             ELSE <<>>)
    ELSE <<>>

RECURSIVE AllMetricLines(_)
AllMetricLines(ms) ==
    IF ms = <<>> THEN <<>> ELSE MetricLines(Head(ms)) \o AllMetricLines(Tail(ms))

_format_metrics(ms) ==
    IF AllMetricLines(ms) = <<>> THEN Str("No metrics available")
    ELSE join(AllMetricLines(ms), <<"\n">>)

\* The arguments of diagnose: the alert_info and the metrics of a triage report.
ValueMetric == [type |-> "dict", value |-> 125000, labels |-> [endpoint |-> "/products"]]
DiagAlerts == {[name |-> "HighErrorRate", severity |-> "critical"], [severity |-> "critical"]}
DiagReports ==
    {[metrics |-> <<>>],
     [metrics |-> <<[name |-> "error_rate_by_endpoint",
                     data |-> ErrorMarker("PromQL query failed: parse error")],
                    [name |-> "total_error_rate", data |-> ValueMetric]>>],
     [metrics |-> <<[name |-> "error_rate_by_endpoint",
                     data |-> List(<<ValueMetric, ValueMetric>>)],
                    [name |-> "total_error_rate", data |-> None]>>]}

AlertName(info) == IF "name" \in DOMAIN info THEN info.name ELSE "Unknown"

\* The records of the incidents table: those of earlier runs, and what
\* add_incident writes now.
PastIncident(i) ==
    [alert_name |-> "HighErrorRate", diagnosis |-> <<"p", ToString(i)>>,
     root_cause |-> <<"p", ToString(i)>>, fix |-> Str("Restart"),
     timestamp |-> "earlier"]
IncidentRecord(name, diagnosis_, root_cause, fix) ==
    [alert_name |-> name, diagnosis |-> diagnosis_, root_cause |-> root_cause,
     fix |-> fix, timestamp |-> "now"]

\* search_similar: nothing from an empty table, else the SearchLimit nearest
\* records in the order of their distance, which the embedding decides.
SearchResults(table) ==
    LET n == IF Len(table) < SearchLimit THEN Len(table) ELSE SearchLimit
    IN  {[k \in 1..n |-> table[f[k]]] :
            f \in {g \in [1..n -> DOMAIN table] :
                      \A a, b \in 1..n : a # b => g[a] # g[b]}}

\* rag_context: the marker, or the header line and three lines per incident
\* found.
NoPrecedent == Str("No similar past incidents found.")

RECURSIVE PrecedentText(_, _)
PrecedentText(found, i) ==
    IF i > Len(found) THEN <<>>
    ELSE Str(ToString(i) \o ". Alert: " \o found[i].alert_name \o "\n")
         \o Str("   Root Cause: ") \o found[i].root_cause \o <<"\n">>
         \o Str("   Fix: ") \o found[i].fix \o <<"\n">>
         \o PrecedentText(found, i + 1)

RagContext_blank(similar) ==
    IF similar.bound /\ similar.value # <<>>
    THEN Str("Found similar past incidents:\n") \o PrecedentText(similar.value, 1)
    ELSE <<>>
RagContext(similar) ==
    IF similar.bound /\ similar.value # <<>>
    THEN Str("Found similar past incidents:\n") \o PrecedentText(similar.value, 1)
    ELSE NoPrecedent

\* self.diagnostic_prompt.format(...): the parts of the request that vary.
Prompt(info, summary, rag) ==
    [alert_name |-> AlertName(info),
     severity |-> IF "severity" \in DOMAIN info THEN info.severity ELSE "Unknown",
     metrics_summary |-> summary,
     rag_context |-> rag]

\* What the engine answers: self.llm.invoke raises, or a response text.
EngineOutcomes ==
    {[kind |-> "raised", message |-> "Connection refused"]}
    \cup {[kind |-> "content", content |-> join(ls, <<"\n">>)] : ls \in
            {<<Str("ROOT CAUSE:"), Str("- Database connection pool exhausted"),
               Str("Recommended Actions:"), Str("1. Restart the service"),
               Str("Confidence Level: High"), Str("low to HIGH")>>,
             <<Str("ROOT CAUSE:"), Str("- Database connection pool exhausted"),
               Str("Confidence Level: High"), Str("low to HIGH")>>,
             <<Str("ROOT CAUSE:"), Str("- Database connection pool exhausted"),
               Str("Recommended Actions:"), Str("1. Restart the service")>>,
             <<Str("ROOT CAUSE:"), Str("- Database connection pool exhausted"),
               Str("Confidence Level: High"), Str("Low")>>,
             <<Str("ROOT CAUSE:"), Str("- High error rate, low memory")>>,
             <<Str("The pool is exhausted")>>,
             <<>>}}

\* The except handler of diagnose.
FailedDiagnosis(info, e) ==
    [alert_name |-> AlertName(info), error |-> e,
     diagnosis |-> Str("Error occurred during AI analysis"),
     confidence |-> "none"]

\* self.llm.invoke raised: where diagnose goes on and what it returns.
InvokeFailed_retry(info, e) ==
    [d_pc |-> "invoke", diagnosis |-> [status |-> "none"]]
InvokeFailed(info, e) ==
    [d_pc |-> "done", diagnosis |-> FailedDiagnosis(info, e)]

\* add_incident raised: where diagnose goes on and what it returns so far.
SaveFailed_propagates(info, e) ==
    [d_pc |-> "done", diagnosis |-> FailedDiagnosis(info, e)]
SaveFailed(info, e) ==
    [d_pc |-> "return", diagnosis |-> [status |-> "none"]]

\* The dict of a diagnosis that succeeded.
SuccessDiagnosis(info, p, raw, similar) ==
    [alert_name |-> AlertName(info),
     diagnosis |-> p.root_cause,
     evidence |-> p.evidence,
     recommendations |-> p.recommendations,
     confidence |-> p.confidence,
     raw_response |-> raw,
     rag_context_used |-> similar.bound /\ similar.value # <<>>]

SearchesStore_always == TRUE

\* if self.knowledge_base: (before the similarity search)
SearchesStore == knowledge_base = "ready"

\* if self.knowledge_base and parsed.get("confidence") == "high"
Learns_unless_low == knowledge_base = "ready" /\ d_parsed.confidence # "low"
Learns == knowledge_base = "ready" /\ d_parsed.confidence = "high"

DiagFrame == UNCHANGED <<monVars, triVars, parVars, remVars, pipeVars, storeVars,
                       appVars>>

DiagInit ==
    /\ d_pc = "search"
    /\ alert_info \in DiagAlerts
    /\ triage_report \in DiagReports
    /\ metrics_summary = <<>>
    /\ rag_context = <<>>
    /\ prompt_text = [status |-> "none"]
    /\ knowledge_base \in {"None", "ready"}
    /\ \E n \in 0..MaxIncidents : incidents = [i \in 1..n |-> PastIncident(i)]
    /\ knowledge_base = "None" => incidents = <<>>
    /\ similar_incidents = Unbound
    /\ llm_calls = 0
    /\ search_calls = 0
    /\ add_calls = 0
    /\ response = [kind |-> "none"]
    /\ d_parsed = [status |-> "none"]
    /\ diagnosis = [status |-> "none"]

\* metrics_summary = self._format_metrics(...), then the search of the store,
\* whose failure is logged and passed over
SearchSimilar ==
    /\ d_pc = "search"
    /\ metrics_summary' = _format_metrics(triage_report.metrics)
    /\ IF SearchesStore
       THEN /\ search_calls' = search_calls + 1
            /\ \/ similar_incidents' = similar_incidents  \* search_similar raised
               \/ \E found \in SearchResults(incidents) :
                      similar_incidents' = Bound(found)
       ELSE UNCHANGED <<similar_incidents, search_calls>>
    /\ rag_context' = RagContext(similar_incidents')
    /\ d_pc' = "invoke"
    /\ UNCHANGED <<alert_info, triage_report, prompt_text, knowledge_base,
                   incidents, llm_calls, add_calls, response, d_parsed,
                   diagnosis>>
    /\ DiagFrame

\* prompt_text = self.diagnostic_prompt.format(...), then
\* response = self.llm.invoke(prompt_text)
InvokeLLM ==
    /\ d_pc = "invoke"
    /\ prompt_text' = Prompt(alert_info, metrics_summary, rag_context)
    /\ llm_calls' = llm_calls + 1
    /\ \E out \in EngineOutcomes :
        /\ response' = out
        /\ IF out.kind = "raised"
           THEN /\ d_pc' = InvokeFailed(alert_info, out.message).d_pc
                /\ diagnosis' = InvokeFailed(alert_info, out.message).diagnosis
           ELSE /\ d_pc' = "parse"
                /\ diagnosis' = diagnosis
    /\ UNCHANGED <<alert_info, triage_report, metrics_summary, rag_context,
                   knowledge_base, incidents, similar_incidents, search_calls,
                   add_calls, d_parsed>>
    /\ DiagFrame

\* parsed = self._parse_diagnosis(diagnosis_text)
ParseResponse ==
    /\ d_pc = "parse"
    /\ d_parsed' = _parse_diagnosis(response.content)
    /\ d_pc' = "learn"
    /\ UNCHANGED <<alert_info, triage_report, metrics_summary, rag_context,
                   prompt_text, knowledge_base,
                   incidents, similar_incidents, llm_calls, search_calls, add_calls,
                   response, diagnosis>>
    /\ DiagFrame

\* self.knowledge_base.add_incident(...), whose failure is logged and passed
\* over
SaveIncident ==
    /\ d_pc = "learn"
    /\ Learns
    /\ add_calls' = add_calls + 1
    /\ \/ /\ incidents' = incidents                        \* add_incident raised
          /\ d_pc' = SaveFailed(alert_info, "Connection refused").d_pc
          /\ diagnosis' = SaveFailed(alert_info, "Connection refused").diagnosis
       \/ /\ incidents' = Append(incidents,
                 IncidentRecord(AlertName(alert_info), d_parsed.root_cause,
                                d_parsed.root_cause,
                                IF d_parsed.recommendations # <<>>
                                THEN d_parsed.recommendations[1]
                                ELSE Str("Investigate")))
          /\ d_pc' = "return"
          /\ diagnosis' = diagnosis
    /\ UNCHANGED <<alert_info, triage_report, metrics_summary, rag_context,
                   prompt_text, knowledge_base,
                   similar_incidents, llm_calls, search_calls, response, d_parsed>>
    /\ DiagFrame

\* return {...}
ReturnDiagnosis ==
    /\ d_pc = "return" \/ (d_pc = "learn" /\ ~Learns)
    /\ diagnosis' = SuccessDiagnosis(alert_info, d_parsed, response.content,
                                     similar_incidents)
    /\ d_pc' = "done"
    /\ UNCHANGED <<alert_info, triage_report, metrics_summary, rag_context,
                   prompt_text, knowledge_base,
                   incidents, similar_incidents, llm_calls, search_calls, add_calls,
                   response, d_parsed>>
    /\ DiagFrame

DiagNext ==
    \/ SearchSimilar
    \/ InvokeLLM
    \/ ParseResponse
    \/ SaveIncident
    \/ ReturnDiagnosis

InitDiagnose ==
    DiagInit /\ MonInit /\ TriIdle /\ ParIdle /\ RemIdle
        /\ PipeIdle /\ StoreIdle /\ AppIdle

SpecDiagnose == InitDiagnose /\ [][DiagNext]_vars

-----------------------------------------------------------------------------
(* Claims about DiagnosticAgent.diagnose *)

Written == {i \in DOMAIN incidents : incidents[i].timestamp = "now"}

\* C10: diagnose invokes the engine at most once and never again after a
\* failure; when the invocation fails it returns a failed Diagnosis, with an
\* 'error' and the confidence 'none', and nothing is written to the Knowledge
\* Store.
C10_OneInvocationNoRetry ==
    /\ llm_calls <= 1
    /\ d_pc \in {"parse", "learn", "return", "done"} => llm_calls = 1
    /\ response.kind = "raised" =>
          /\ d_pc = "done"
          /\ "error" \in DOMAIN diagnosis
          /\ diagnosis.error = response.message
          /\ diagnosis.confidence = "none"
          /\ Written = {}
    /\ (d_pc = "done" /\ response.kind = "content") =>
          "error" \notin DOMAIN diagnosis /\ diagnosis.confidence # "none"

C10_Witness ==
    /\ d_pc = "done"
    /\ response.kind = "raised"
    /\ llm_calls = 1
    /\ knowledge_base = "ready"
    /\ Len(incidents) = MaxIncidents
    /\ diagnosis.confidence = "none"
    /\ diagnosis.error = "Connection refused"

\* The similarity search of this diagnose call raised.
SearchRaised ==
    knowledge_base = "ready" /\ d_pc \notin {"idle", "search"}
        /\ ~similar_incidents.bound

\* The precedents a precedent text lists.
Precedents(text) ==
    LET ls == split(text, "\n")
    IN  Cardinality({i \in DOMAIN ls : Contains(ls[i], Str(". Alert: "))})

\* C11: when the similarity search raises, the diagnosis is not failed on that
\* account: the request carries the "No similar past incidents found." marker,
\* the engine is still invoked, and a returned Diagnosis has rag_context_used
\* false; when the search succeeds the request lists what it returned, at most
\* 3 precedents.
C11_SearchFailureTolerated ==
    /\ SearchRaised =>
          /\ rag_context = NoPrecedent
          /\ d_pc = "invoke" \/ llm_calls = 1
          /\ llm_calls = 1 => prompt_text.rag_context = NoPrecedent
          /\ "error" \in DOMAIN diagnosis => response.kind = "raised"
          /\ (d_pc = "done" /\ response.kind = "content") =>
                ~diagnosis.rag_context_used
    /\ (similar_incidents.bound /\ llm_calls = 1) =>
          /\ Precedents(prompt_text.rag_context) = Len(similar_incidents.value)
          /\ Precedents(prompt_text.rag_context) <= 3

C11_Witness ==
    /\ d_pc = "done"
    /\ SearchRaised
    /\ Len(incidents) = MaxIncidents
    /\ prompt_text.rag_context = NoPrecedent
    /\ response.kind = "content"
    /\ diagnosis.confidence = "high"
    /\ ~diagnosis.rag_context_used

IsParsed == "confidence" \in DOMAIN d_parsed

\* C12: with a Knowledge Store available, diagnose calls add_incident iff the
\* parsed confidence is 'high': at most once per call, only after the response
\* was parsed, never for medium or low, and never for a failed diagnosis
\* (confidence 'none').
C12_SaveIffHighConfidence ==
    /\ add_calls <= 1
    /\ add_calls = 1 =>
          /\ knowledge_base = "ready"
          /\ IsParsed /\ d_parsed.confidence = "high"
          /\ d_pc \in {"return", "done"}
    /\ (d_pc = "done" /\ knowledge_base = "ready") =>
          (add_calls = 1 <=>
              (response.kind = "content" /\ IsParsed
                  /\ d_parsed.confidence = "high"))
    /\ (d_pc = "done" /\ diagnosis.confidence \in {"medium", "low", "none"}) =>
          add_calls = 0

C12_Witness ==
    /\ d_pc = "done"
    /\ knowledge_base = "ready"
    /\ diagnosis.confidence = "high"
    /\ add_calls = 1
    /\ Written # {}

\* The write of this diagnose call raised.
WriteRaised == add_calls = 1 /\ Written = {}

\* C13: when the Knowledge Store write of a high-confidence diagnosis raises,
\* diagnose still returns the successful Diagnosis: no 'error' field,
\* confidence 'high', and the root cause, evidence and recommendations parsed
\* from the response, the same as after a write that succeeded.
C13_WriteFailureTolerated ==
    (d_pc = "done" /\ add_calls = 1) =>
        LET p == _parse_diagnosis(response.content)
        IN  /\ "error" \notin DOMAIN diagnosis
            /\ diagnosis.confidence = "high"
            /\ diagnosis.diagnosis = p.root_cause
            /\ diagnosis.evidence = p.evidence
            /\ diagnosis.recommendations = p.recommendations
            /\ diagnosis.raw_response = response.content

C13_Witness ==
    /\ d_pc = "done"
    /\ WriteRaised
    /\ diagnosis.confidence = "high"
    /\ diagnosis.diagnosis = Str("Database connection pool exhausted ")
    /\ diagnosis.recommendations = <<Str("Restart the service")>>

\* No line of the text holds the keyword of the CONFIDENCE header.
NoConfidenceHeader(text) ==
    \A i \in DOMAIN split(text, "\n") :
        ~Contains(upper(split(text, "\n")[i]), Str("CONFIDENCE"))

Failed(d) == "error" \in DOMAIN d

\* C38: when the Knowledge Store could not be initialised at construction
\* (knowledge_base is None) diagnose still proceeds: it performs no similarity
\* search and no store write, the request carries the "No similar past
\* incidents found." marker, the engine is invoked, and the Diagnosis returned
\* when the engine answers has rag_context_used false, whatever the parsed
\* confidence.
C38_NoStoreStillDiagnoses ==
    knowledge_base = "None" =>
        /\ search_calls = 0
        /\ add_calls = 0
        /\ incidents = <<>>
        /\ ~similar_incidents.bound
        /\ d_pc # "search" => rag_context = NoPrecedent
        /\ d_pc \in {"search", "invoke"} \/ llm_calls = 1
        /\ llm_calls = 1 => prompt_text.rag_context = NoPrecedent
        /\ "error" \in DOMAIN diagnosis => response.kind = "raised"
        /\ (d_pc = "done" /\ response.kind = "content") =>
              /\ "error" \notin DOMAIN diagnosis
              /\ diagnosis.confidence = d_parsed.confidence
              /\ ~diagnosis.rag_context_used

\* A high-confidence diagnosis without a store: returned, nothing written.
C38_Witness ==
    /\ knowledge_base = "None"
    /\ d_pc = "done"
    /\ response.kind = "content"
    /\ d_parsed.confidence = "high"
    /\ diagnosis.confidence = "high"
    /\ ~diagnosis.rag_context_used
    /\ add_calls = 0

\* C24: the confidence grade of every Diagnosis diagnose returns is one of
\* low, medium, high, none; it is 'none' iff the diagnosis failed, and for a
\* parsed response with no CONFIDENCE header it is 'medium'.
C24_ConfidenceGrades ==
    d_pc = "done" =>
        /\ diagnosis.confidence \in {"low", "medium", "high", "none"}
        /\ diagnosis.confidence = "none" <=> Failed(diagnosis)
        /\ Failed(diagnosis) <=> response.kind = "raised"
        /\ (response.kind = "content" /\ NoConfidenceHeader(response.content)) =>
              diagnosis.confidence = "medium"

\* A response that speaks of 'High' and 'low' outside any confidence section.
C24_Witness ==
    /\ d_pc = "done"
    /\ response.kind = "content"
    /\ NoConfidenceHeader(response.content)
    /\ Contains(lower(response.content), Str("high"))
    /\ diagnosis.confidence = "medium"
    /\ diagnosis.diagnosis = Str("High error rate, low memory ")

\* A rendered line without its indentation and letter case.
Normalised(line) == upper(strip(line))

\* C26: the evidence summary diagnose builds follows the formatting rule of
\* the summary of investigate_alert: for a non-empty metric map both render
\* the same metrics in the same order, one line per rendered metric, of the
\* same form per kind (up to indentation and letter case).
C26_SameFormattingRule ==
    (metrics_summary # <<>> /\ triage_report.metrics # <<>>) =>
        LET evidence == split(metrics_summary, "\n")
            summary == SummaryParts(triage_report.metrics)
        IN  /\ Len(evidence) = Len(summary)
            /\ \A i \in DOMAIN evidence :
                  Normalised(evidence[i]) = Normalised(Str(summary[i]))

-----------------------------------------------------------------------------
(* The drivers of the stages: investigate_multiple_alerts followed by        *)
(* diagnose_multiple, and main of examples/demo_remediation.py               *)

DriverAlerts == {a \in TriageAlerts : a.alertname = "HighErrorRate"}

\* What investigate_alert does with an alert, whatever the backend answers: it
\* returns a report, or the KeyError of the missing annotations escapes.
InvestigateOutcomes(a) ==
    IF a.has_annotations
    THEN {Returned([alert_info |-> [name |-> a.alertname, severity |-> "critical"],
                    metrics |-> r.metrics]) : r \in DiagReports}
    ELSE {Raise("'annotations'")}

\* The except branch of investigate_multiple_alerts.
FailureReport(a, e) == [alert_info |-> [name |-> a.alertname], error |-> e]

\* What diagnose returns for what the engine answers.
DiagnoseOutcome(info, out) ==
    IF out.kind = "raised" THEN FailedDiagnosis(info, out.message)
    ELSE SuccessDiagnosis(info, _parse_diagnosis(out.content), out.content,
                          Unbound)

IsFailure(res) == "error" \in DOMAIN res

\* investigation.get("alert_info", {})
AlertInfoOf(investigation) ==
    IF "alert_info" \in DOMAIN investigation THEN investigation.alert_info
    ELSE [x \in {} |-> ""]

\* A stage is started on the result of its predecessor.
Start(stage, handed) == [stage |-> stage, predecessor_failed |-> IsFailure(handed)]

PipeFrame == UNCHANGED <<monVars, triVars, parVars, diagVars, remVars, storeVars,
                       appVars>>

PipeInit ==
    /\ driver \in {"batch", "demo"}
    /\ s_pc = "investigate"
    /\ s_alerts \in ListsUpTo(DriverAlerts, MaxBatch)
    /\ s_idx = 1
    /\ reports = <<>>
    /\ diagnoses = <<>>
    /\ diagnosis_context = [status |-> "none"]
    /\ started = <<>>
    /\ proposed = [status |-> "none"]
    /\ choice = "None"

\* investigate_multiple_alerts: one pass of "for alert in alerts"
BatchInvestigate ==
    /\ driver = "batch" /\ s_pc = "investigate"
    /\ s_idx <= Len(s_alerts)
    /\ \E o \in InvestigateOutcomes(s_alerts[s_idx]) :
          reports' = Append(reports,
                            IF o.raised THEN FailureReport(s_alerts[s_idx], o.message)
                            ELSE o.value)
    /\ s_idx' = s_idx + 1
    /\ UNCHANGED <<driver, s_pc, s_alerts, diagnoses, diagnosis_context, started,
                   proposed, choice>>
    /\ PipeFrame

\* return reports; the reports are handed to diagnose_multiple
BatchHandOver ==
    /\ driver = "batch" /\ s_pc = "investigate"
    /\ s_idx > Len(s_alerts)
    /\ s_pc' = "diagnose"
    /\ s_idx' = 1
    /\ UNCHANGED <<driver, s_alerts, reports, diagnoses, diagnosis_context, started,
                   proposed, choice>>
    /\ PipeFrame

\* diagnose_multiple: one pass of "for investigation in investigations"
BatchDiagnose ==
    /\ driver = "batch" /\ s_pc = "diagnose"
    /\ s_idx <= Len(reports)
    /\ started' = Append(started, Start("diagnose", reports[s_idx]))
    /\ \E out \in EngineOutcomes :
          diagnoses' = Append(diagnoses,
                              DiagnoseOutcome(AlertInfoOf(reports[s_idx]), out))
    /\ s_idx' = s_idx + 1
    /\ UNCHANGED <<driver, s_pc, s_alerts, reports, diagnosis_context,
                   proposed, choice>>
    /\ PipeFrame

\* return results
BatchReturn ==
    /\ driver = "batch" /\ s_pc = "diagnose"
    /\ s_idx > Len(reports)
    /\ s_pc' = "done"
    /\ UNCHANGED <<driver, s_alerts, s_idx, reports, diagnoses,
                   diagnosis_context, started, proposed, choice>>
    /\ PipeFrame

\* main: no alert firing, or Step 1 on alerts[0]; an exception of
\* investigate_alert ends main
DemoTriage ==
    /\ driver = "demo" /\ s_pc = "investigate"
    /\ IF s_alerts = <<>>
       THEN s_pc' = "done" /\ reports' = reports
       ELSE \E o \in InvestigateOutcomes(s_alerts[1]) :
               IF o.raised
               THEN s_pc' = "crashed" /\ reports' = reports
               ELSE s_pc' = "diagnose" /\ reports' = <<o.value>>
    /\ UNCHANGED <<driver, s_alerts, s_idx, diagnoses, diagnosis_context, started,
                   proposed, choice>>
    /\ PipeFrame

\* Step 2: diagnosis = diagnostic_agent.diagnose(...)
DemoDiagnose ==
    /\ driver = "demo" /\ s_pc = "diagnose"
    /\ started' = Append(started, Start("diagnose", reports[1]))
    /\ \E out \in EngineOutcomes :
          diagnoses' = <<DiagnoseOutcome(reports[1].alert_info, out)>>
    /\ s_pc' = "remediate"
    /\ UNCHANGED <<driver, s_alerts, s_idx, reports, diagnosis_context,
                   proposed, choice>>
    /\ PipeFrame

\* What propose_fix hands back to the demo: a plan of the engine, the fixed
\* default plan, or the list a fenced block held.
ProposedPlans == {CodeChangePlan, SafeDefault, PlanList}

\* Step 3: plan = remediation_agent.propose_fix(diagnosis_context)
DemoRemediate ==
    /\ driver = "demo" /\ s_pc = "remediate"
    /\ diagnosis_context' =
          [alert_info |-> reports[1].alert_info,
           triage_report |-> reports[1],
           diagnosis |-> diagnoses[1].diagnosis,
           root_cause |-> diagnoses[1].diagnosis]
    /\ started' = Append(started, Start("remediate", diagnoses[1]))
    /\ proposed' \in ProposedPlans
    /\ s_pc' = "present"
    /\ UNCHANGED <<driver, s_alerts, s_idx, reports, diagnoses, choice>>
    /\ PipeFrame

\* "PROPOSED REMEDIATION PLAN": the prints that call plan.get, which a list
\* does not have
DemoPresent ==
    /\ driver = "demo" /\ s_pc = "present"
    /\ s_pc' = IF proposed.type = "dict" THEN "approval" ELSE "crashed"
    /\ UNCHANGED <<driver, s_alerts, s_idx, reports, diagnoses,
                   diagnosis_context, started, proposed, choice>>
    /\ PipeFrame

\* What the human types at the prompt.
Inputs == {"y", "Y", " y ", "n", "", "yes"}

Approved_any(text) == TRUE

\* input(...).strip().lower() == 'y'
Approved(text) == lower(strip(Str(text))) = Str("y")

\* choice = input("Do you want to apply this fix? (y/n): ") and the branch on it
DemoApproval ==
    /\ driver = "demo" /\ s_pc = "approval"
    /\ choice' \in Inputs
    /\ s_pc' = IF Approved(choice') THEN "applied" ELSE "rejected"
    /\ UNCHANGED <<driver, s_alerts, s_idx, reports, diagnoses,
                   diagnosis_context, started, proposed>>
    /\ PipeFrame

PipeNext ==
    \/ BatchInvestigate
    \/ BatchHandOver
    \/ BatchDiagnose
    \/ BatchReturn
    \/ DemoTriage
    \/ DemoDiagnose
    \/ DemoRemediate
    \/ DemoPresent
    \/ DemoApproval

InitPipeline ==
    PipeInit /\ MonInit /\ TriIdle /\ ParIdle /\ DiagIdle /\ RemIdle
        /\ StoreIdle /\ AppIdle

SpecPipeline == InitPipeline /\ [][PipeNext]_vars

-----------------------------------------------------------------------------
(* Claims about the chain of stages *)

\* C14: no stage starts unless its predecessor completed successfully:
\* diagnosis is never started on a failure report, remediation planning never
\* on a failed Diagnosis, in the batch operations and in the demo driver.
C14_StrictStageChain ==
    \A i \in DOMAIN started : ~started[i].predecessor_failed

Affirmative == {"y", "Y", " y "}

\* C23: the drivers never apply a remediation on their own: the apply step is
\* reached only in the demo, only after the plan was presented and the human
\* typed an affirmative answer, and a plan the human did not approve is never
\* applied. (The fixed default plan is presented like any other and is
\* applied when the human approves it.)
C23_ApplyOnlyAfterApproval ==
    /\ s_pc = "applied" =>
          /\ driver = "demo"
          /\ proposed \in ProposedPlans /\ proposed.type = "dict"
          /\ choice \in Affirmative
    /\ (choice # "None" /\ choice \notin Affirmative) => s_pc = "rejected"
    /\ s_pc = "rejected" => choice \in Inputs \ Affirmative
    /\ driver = "batch" => choice = "None" /\ proposed = [status |-> "none"]

\* An engine plan approved with " y ".
C23_Witness ==
    /\ s_pc = "applied"
    /\ proposed = CodeChangePlan
    /\ choice = " y "

\* C23 as stated: moreover the fixed default plan is never applied.
C23_DefaultPlanNeverApplied ==
    /\ C23_ApplyOnlyAfterApproval
    /\ s_pc = "applied" => proposed # SafeDefault

-----------------------------------------------------------------------------
(* Claims about the results of investigate_alert *)

\* C15: investigate_alert never lets an exception escape: whatever the alert
\* carries and whatever the backend answers, it ends by returning a report.
C15_AlwaysAResultObject ==
    /\ t_pc # "raised"
    /\ t_pc = "done" => report.status = "returned"

\* C16: the value stored for a successfully answered instant or range query
\* is always a list of entries, also when the backend returned one series.
C16_UniformListShape ==
    /\ \A i \in DOMAIN metrics :
          Succeeding(IssuedTo("query")[i]) => metrics[i].data.type = "list"
    /\ \A i \in DOMAIN time_series :
          Succeeding(IssuedTo("query_range")[i]) =>
              time_series[i].data.type = "list"

\* C17: an instant query the backend answers with status 'error' and message
\* m, or with a sample that is no number, is recorded as the error marker of
\* its metric, the marker of the backend error containing m; the failure is
\* never what investigate_alert raises.
C17_QueryErrorRecorded ==
    /\ \A i \in DOMAIN metrics :
          LET a == IssuedTo("query")[i]
          IN  /\ a.metric_name = metrics[i].name
              /\ a.kind = "status_error" =>
                    /\ IsErrorMarker(metrics[i].data)
                    /\ Contains(Str(metrics[i].data.error), Str(a.error))
              /\ (a.kind = "success" /\ ~a.numeric) =>
                    IsErrorMarker(metrics[i].data)
    /\ Len(IssuedTo("query")) = Len(metrics)
    /\ t_pc = "raised" =>
          /\ report.message = "'annotations'"
          /\ \A i \in DOMAIN issued : report.message # issued[i].error

\* Both kinds of failure in one investigation, which still returns its report.
C17_Witness ==
    /\ t_pc = "done"
    /\ alert.alertname = "HighErrorRate"
    /\ IssuedTo("query")[1].kind = "status_error"
    /\ IssuedTo("query")[1].error = "parse error"
    /\ report.metrics[1].data = ErrorMarker("PromQL query failed: parse error")
    /\ IssuedTo("query")[2].kind = "success" /\ ~IssuedTo("query")[2].numeric
    /\ IsErrorMarker(report.metrics[2].data)
    /\ Succeeding(IssuedTo("query")[3])

-----------------------------------------------------------------------------
(* IncidentKnowledgeBase *)

StoreNames == {"HighErrorRate", "MemoryLeak"}
StoreCauses == {"connection pool exhausted", "unbounded cache"}

\* f"{alert_name}: {root_cause}" and f"{alert_name}: {current_symptoms}"
text_to_embed(alert_name, root_cause) == alert_name \o ": " \o root_cause

StoreTexts == {text_to_embed(n, c) : n \in StoreNames, c \in StoreCauses}

NameAxis == [n \in StoreNames |-> IF n = "HighErrorRate" THEN 0 ELSE 2]
CauseAxis == [c \in StoreCauses |-> IF c = "connection pool exhausted" THEN 0 ELSE 1]

\* The embedding engine is a fixed function from text to vectors: one that
\* tells all texts apart, and one that sees the alert name only.
Embeddings ==
    {[t \in StoreTexts |->
         CHOOSE v \in {<<NameAxis[n], CauseAxis[c]>> : n \in StoreNames, c \in StoreCauses} :
            \E n \in StoreNames, c \in StoreCauses :
                t = text_to_embed(n, c) /\ v = <<NameAxis[n], CauseAxis[c]>>],
     [t \in StoreTexts |->
         CHOOSE v \in {<<NameAxis[n], 0>> : n \in StoreNames} :
            \E n \in StoreNames, c \in StoreCauses :
                t = text_to_embed(n, c) /\ v = <<NameAxis[n], 0>>]}

\* self.embeddings.embed_query(text): the vector, or the engine is unreachable.
embed_query(engine, up, text) ==
    IF up THEN Returned(engine[text]) ELSE Raise("Failed to connect to Ollama")

\* The row add_incident builds.
IncidentRow(vector, alert_name, diagnosis_, root_cause, fix, now) ==
    [vector |-> vector, alert_name |-> alert_name, diagnosis |-> diagnosis_,
     root_cause |-> root_cause, fix |-> fix, timestamp |-> now]

\* The table "incidents" exists once create_table has run.
TableExists(table) == table # <<>>

create_or_add_overwrite(table, data) == <<data>>

\* open_table(...).add(data) on an existing table, create_table(..., data)
\* otherwise.
create_or_add(table, data) ==
    IF TableExists(table) THEN Append(table, data) ELSE <<data>>

\* Squared L2 distance, the metric of the table's search.
Distance(v, w) == (v[1] - w[1]) * (v[1] - w[1]) + (v[2] - w[2]) * (v[2] - w[2])

Smaller(a, b) == IF a < b THEN a ELSE b

\* Row numbers by increasing distance to q, rows at the same distance in
\* table order.
Ranking(table, q) ==
    LET n == Len(table)
        before(i, j) ==
            \/ Distance(table[i].vector, q) < Distance(table[j].vector, q)
            \/ /\ Distance(table[i].vector, q) = Distance(table[j].vector, q)
               /\ i < j
        place(i) == 1 + Cardinality({j \in 1..n : before(j, i)})
    IN  [k \in 1..n |-> CHOOSE i \in 1..n : place(i) = k]

Hit(row, q) ==
    [vector |-> row.vector, alert_name |-> row.alert_name,
     diagnosis |-> row.diagnosis, root_cause |-> row.root_cause,
     fix |-> row.fix, timestamp |-> row.timestamp,
     _distance |-> Distance(row.vector, q)]

Nearest_unlimited(table, q, limit) ==
    [k \in 1..Len(table) |-> Hit(table[Ranking(table, q)[k]], q)]

\* .search(query_vector).limit(limit).to_pandas().to_dict(orient="records")
Nearest(table, q, limit) ==
    [k \in 1..Smaller(limit, Len(table)) |-> Hit(table[Ranking(table, q)[k]], q)]

\* What one call of search_similar does: its outcome and whether it used the
\* embedding engine and the index.
SearchOutcome(outcome, embedded, searched) ==
    [outcome |-> outcome, embedded |-> embedded, searched |-> searched]

SearchSimilarOf_unguarded(table, engine, up, alert_name, current_symptoms, limit) ==
    LET q == embed_query(engine, up, text_to_embed(alert_name, current_symptoms))
    IN  IF q.raised THEN SearchOutcome(q, TRUE, FALSE)
        ELSE SearchOutcome(Returned(Nearest(table, q.value, limit)), TRUE, TRUE)

SearchSimilarOf(table, engine, up, alert_name, current_symptoms, limit) ==
    LET q == embed_query(engine, up, text_to_embed(alert_name, current_symptoms))
    IN  IF ~TableExists(table) THEN SearchOutcome(Returned(<<>>), FALSE, FALSE)
        ELSE IF q.raised THEN SearchOutcome(q, TRUE, FALSE)
        ELSE SearchOutcome(Returned(Nearest(table, q.value, limit)), TRUE, TRUE)

\* The limits search_similar is called with: one, and the default.
Limits == {1, SearchLimit}

Count(b) == IF b THEN 1 ELSE 0

StoreFrame == UNCHANGED <<monVars, triVars, parVars, diagVars, remVars, pipeVars,
                          appVars>>

\* The directory db_path outlives the process: the table is missing, or holds
\* the rows earlier runs added.
PersistedRows(engine) ==
    <<IncidentRow(engine[text_to_embed("HighErrorRate", "connection pool exhausted")],
                  "HighErrorRate", "ROOT CAUSE: connection pool exhausted",
                  "connection pool exhausted", "Restart the service", 0),
      IncidentRow(engine[text_to_embed("MemoryLeak", "unbounded cache")],
                  "MemoryLeak", "ROOT CAUSE: unbounded cache",
                  "unbounded cache", "Restart the service", 0)>>

StoreInit ==
    /\ embedding \in Embeddings
    /\ rows \in {<<>>, PersistedRows(embedding)}
    /\ embed_calls = 0
    /\ index_searches = 0
    /\ kb_calls = <<>>

add_incident ==
    /\ StoreFrame
    /\ Len(kb_calls) < MaxCalls
    /\ \E alert_name \in StoreNames, root_cause \in StoreCauses,
          up \in BOOLEAN, written \in BOOLEAN :
        LET diagnosis_ == "ROOT CAUSE: " \o root_cause
            fix == "Restart the service"
            vector == embed_query(embedding, up, text_to_embed(alert_name, root_cause))
            stored == ~vector.raised /\ written
        IN  /\ up \/ written      \* the write is not reached with the engine down
            /\ embed_calls' = embed_calls + 1
            /\ rows' = IF stored
                       THEN create_or_add(rows,
                               IncidentRow(vector.value, alert_name, diagnosis_,
                                           root_cause, fix, Len(kb_calls) + 1))
                       ELSE rows
            /\ kb_calls' = Append(kb_calls,
                   [op |-> "add_incident",
                    args |-> <<alert_name, diagnosis_, root_cause, fix>>,
                    raised |-> ~stored, result |-> <<>>,
                    before |-> rows, after |-> rows'])
    /\ UNCHANGED <<embedding, index_searches>>

search_similar ==
    /\ StoreFrame
    /\ Len(kb_calls) < MaxCalls
    /\ \E alert_name \in StoreNames, current_symptoms \in StoreCauses,
          limit \in Limits, up \in BOOLEAN :
        LET out == SearchSimilarOf(rows, embedding, up, alert_name,
                                   current_symptoms, limit)
        IN  /\ embed_calls' = embed_calls + Count(out.embedded)
            /\ index_searches' = index_searches + Count(out.searched)
            /\ kb_calls' = Append(kb_calls,
                   [op |-> "search_similar",
                    args |-> <<alert_name, current_symptoms, limit>>,
                    raised |-> out.outcome.raised, result |-> out.outcome.value,
                    before |-> rows, after |-> rows])
    /\ UNCHANGED <<rows, embedding>>

StoreNext ==
    \/ add_incident
    \/ search_similar

InitStore ==
    StoreInit /\ MonInit /\ TriIdle /\ ParIdle /\ DiagIdle /\ RemIdle
        /\ PipeIdle /\ AppIdle

SpecStore == InitStore /\ [][StoreNext]_vars

-----------------------------------------------------------------------------
(* Claims about IncidentKnowledgeBase *)

LastCall == kb_calls[Len(kb_calls)]
Searches == {i \in DOMAIN kb_calls : kb_calls[i].op = "search_similar"}
Adds == {i \in DOMAIN kb_calls : kb_calls[i].op = "add_incident"}

\* C18: on a store to which no incident was ever added search_similar returns
\* the empty sequence for every alert name, symptom text and limit, does not
\* fail, and calls neither the embedding engine nor the index search.
C18_EmptyStoreSearch ==
    [][(/\ rows = <<>>
        /\ Len(kb_calls') = Len(kb_calls) + 1
        /\ LastCall'.op = "search_similar")
       => /\ ~LastCall'.raised
          /\ LastCall'.result = <<>>
          /\ embed_calls' = embed_calls
          /\ index_searches' = index_searches
          /\ rows' = <<>>]_vars

\* Every combination of alert name and limit searched on the empty store.
C18_Witness ==
    /\ rows = <<>>
    /\ Len(kb_calls) = MaxCalls
    /\ \A i \in DOMAIN kb_calls :
          /\ kb_calls[i].op = "search_similar"
          /\ kb_calls[i].result = <<>>
    /\ kb_calls[1].args[1] # kb_calls[2].args[1]
    /\ kb_calls[1].args[3] # kb_calls[2].args[3]
    /\ embed_calls = 0 /\ index_searches = 0

Incident(row) == <<row.alert_name, row.diagnosis, row.root_cause, row.fix>>

\* C19: the store is append-only: a successful add_incident leaves the rows
\* there were unchanged and appends exactly one row holding the incident, also
\* when an identical incident is stored already; a failed add_incident and
\* every search_similar leave the rows as they are.
C19_AppendOnly ==
    /\ \A i \in DOMAIN kb_calls :
          LET c == kb_calls[i]
          IN  /\ i > 1 => c.before = kb_calls[i - 1].after
              /\ IF c.op = "add_incident" /\ ~c.raised
                 THEN /\ Len(c.after) = Len(c.before) + 1
                      /\ SubSeq(c.after, 1, Len(c.before)) = c.before
                      /\ Incident(c.after[Len(c.after)]) = c.args
                 ELSE c.after = c.before
    /\ kb_calls # <<>> =>
          /\ rows = LastCall.after
          /\ Len(rows) = Len(kb_calls[1].before)
                            + Cardinality({i \in Adds : ~kb_calls[i].raised})

\* The same incident stored twice: two rows.
C19_Witness ==
    /\ Len(rows) = 2
    /\ Len(kb_calls) >= 2
    /\ kb_calls[1].before = <<>>
    /\ Incident(rows[1]) = Incident(rows[2])
    /\ rows[1].vector = rows[2].vector
    /\ \E i, j \in Adds : i < j /\ kb_calls[i].args = kb_calls[j].args
                          /\ ~kb_calls[i].raised /\ ~kb_calls[j].raised

-----------------------------------------------------------------------------
(* Concurrent callers of IncidentKnowledgeBase.add_incident on one db_path *)

Writers == 1..MaxWriters

\* The incident each caller saves.
WriterAlert(w) == IF w % 2 = 1 THEN "HighErrorRate" ELSE "MemoryLeak"
WriterCause(w) == IF w % 2 = 1 THEN "connection pool exhausted" ELSE "unbounded cache"

WriterRow(w, vector) ==
    IncidentRow(vector, WriterAlert(w), "ROOT CAUSE: " \o WriterCause(w),
                WriterCause(w), "Restart the service", w)

\* self.db.create_table(self.table_name, data): the table must not exist.
create_table(table, data) ==
    IF TableExists(table) THEN Raise("Table 'incidents' already exists")
    ELSE Returned(<<data>>)

\* self.db.open_table(self.table_name).add(data)
open_table_add(table, data) == Returned(Append(table, data))

\* Lines 84-87 with the check and the write apart: the write acts on what the
\* check saw.
WriteTable(seen, table, data) ==
    IF seen THEN open_table_add(table, data) ELSE create_table(table, data)

WriterFrame ==
    UNCHANGED <<monVars, triVars, parVars, diagVars, remVars, pipeVars,
                poolVars, bugVars, routeVars>>

WriterInit ==
    /\ embedding \in Embeddings
    /\ rows \in {<<>>, PersistedRows(embedding)}
    /\ embed_calls = 0
    /\ index_searches = 0
    /\ kb_calls = <<>>
    /\ w_pc = [w \in Writers |-> "embed"]
    /\ w_vector = [w \in Writers |-> <<>>]
    /\ w_exists = [w \in Writers |-> FALSE]

\* vector = self.embeddings.embed_query(text_to_embed)
WriterEmbed(w) ==
    /\ w_pc[w] = "embed"
    /\ \E up \in BOOLEAN :
        LET vector == embed_query(embedding, up,
                                  text_to_embed(WriterAlert(w), WriterCause(w)))
        IN  IF vector.raised
            THEN /\ w_pc' = [w_pc EXCEPT ![w] = "embed_failed"]
                 /\ UNCHANGED w_vector
            ELSE /\ w_pc' = [w_pc EXCEPT ![w] = "check"]
                 /\ w_vector' = [w_vector EXCEPT ![w] = vector.value]
    /\ embed_calls' = embed_calls + 1
    /\ UNCHANGED <<rows, embedding, index_searches, kb_calls, w_exists>>
    /\ WriterFrame

\* if self.table_name in self.db.table_names():
WriterCheck(w) ==
    /\ w_pc[w] = "check"
    /\ w_exists' = [w_exists EXCEPT ![w] = TableExists(rows)]
    /\ w_pc' = [w_pc EXCEPT ![w] = "write"]
    /\ UNCHANGED <<storeVars, w_vector>>
    /\ WriterFrame

\* open_table(...).add(data), or create_table(..., data)
WriterWrite(w) ==
    /\ w_pc[w] = "write"
    /\ LET out == WriteTable(w_exists[w], rows, WriterRow(w, w_vector[w]))
       IN  IF out.raised
           THEN /\ w_pc' = [w_pc EXCEPT ![w] = "write_failed"]
                /\ UNCHANGED rows
           ELSE /\ w_pc' = [w_pc EXCEPT ![w] = "done"]
                /\ rows' = out.value
    /\ UNCHANGED <<embedding, embed_calls, index_searches, kb_calls,
                   w_vector, w_exists>>
    /\ WriterFrame

WriterNext ==
    \E w \in Writers :
        \/ WriterEmbed(w)
        \/ WriterCheck(w)
        \/ WriterWrite(w)

InitWriters ==
    WriterInit /\ MonInit /\ TriIdle /\ ParIdle /\ DiagIdle /\ RemIdle
        /\ PipeIdle /\ PoolIdle /\ BugIdle /\ RouteIdle

SpecWriters == InitWriters /\ [][WriterNext]_vars

\* The rows the callers of this run wrote (earlier runs stamped theirs 0).
Written_now == {i \in DOMAIN rows : rows[i].timestamp \in Writers}

\* C21: concurrent callers of add_incident are safe: whatever the
\* interleaving, no call fails in its write to the table, and the table holds
\* one row per call that got its vector.
C21_ConcurrentWritersSafe ==
    /\ \A w \in Writers : w_pc[w] # "write_failed"
    /\ (\A w \in Writers : w_pc[w] \in {"done", "embed_failed", "write_failed"}) =>
          Cardinality(Written_now) =
              Cardinality({w \in Writers : w_pc[w] # "embed_failed"})

-----------------------------------------------------------------------------
(* DatabaseConnectionPool and MockConnection, used by concurrent threads *)

pool_size == 2          \* DatabaseConnectionPool(pool_size=2, max_overflow=1)
max_overflow == 1

Threads == 1..MaxThreads

\* The MockConnection objects that are explored: one more than the pool holds.
MaxConnections == pool_size + max_overflow + 1

acquire_off_by_one(active) ==
    IF active > pool_size + max_overflow
    THEN Raise("Database connection pool exhausted")
    ELSE Returned(active + 1)

\* The body of acquire under self.lock: the new active_connections, or the
\* exception.
acquire(active) ==
    IF active >= pool_size + max_overflow
    THEN Raise("Database connection pool exhausted")
    ELSE Returned(active + 1)

release_nothing(active) == active

\* The body of release under self.lock.
release(active) == IF active - 1 > 0 THEN active - 1 ELSE 0

\* MockConnection.__init__
MockConnection == [closed |-> FALSE, releases |-> 0, reclosed |-> FALSE]

PoolFrame ==
    UNCHANGED <<monVars, triVars, parVars, diagVars, remVars, pipeVars,
                storeVars, writerVars, bugVars, routeVars>>

PoolInit ==
    /\ active_connections = 0
    /\ conns = <<>>
    /\ c_pc = [t \in Threads |-> "idle"]
    /\ c_conn = [t \in Threads |-> 0]
    /\ acquired = [status |-> "none", refused_at |-> 0]

\* conn = pool.acquire(); the lock makes the body one step
Acquire(t) ==
    /\ c_pc[t] = "idle"
    /\ Len(conns) < MaxConnections
    /\ LET out == acquire(active_connections)
       IN  IF out.raised
           THEN /\ acquired' = [status |-> "raised", message |-> out.message,
                                 refused_at |-> Len(conns)]
                /\ UNCHANGED <<active_connections, conns>>
           ELSE /\ active_connections' = out.value
                /\ conns' = Append(conns, MockConnection)
                /\ acquired' = [status |-> "returned", conn |-> Len(conns) + 1,
                                 refused_at |-> acquired.refused_at]
    /\ UNCHANGED <<c_pc, c_conn>>
    /\ PoolFrame

\* conn.close(): "if not self.closed"
CloseCheck(t) ==
    /\ c_pc[t] = "idle"
    /\ \E c \in DOMAIN conns :
          /\ ~conns[c].closed
          /\ c_conn' = [c_conn EXCEPT ![t] = c]
    /\ c_pc' = [c_pc EXCEPT ![t] = "release"]
    /\ UNCHANGED <<active_connections, conns, acquired>>
    /\ PoolFrame

\* conn.close() on a connection whose closed flag is set: nothing happens
CloseClosed(t) ==
    /\ c_pc[t] = "idle"
    /\ \E c \in DOMAIN conns :
          /\ conns[c].closed
          /\ conns' = [conns EXCEPT ![c].reclosed = TRUE]
    /\ UNCHANGED <<active_connections, c_pc, c_conn, acquired>>
    /\ PoolFrame

\* self.pool.release()
CloseRelease(t) ==
    /\ c_pc[t] = "release"
    /\ active_connections' = release(active_connections)
    /\ conns' = [conns EXCEPT ![c_conn[t]].releases = @ + 1]
    /\ c_pc' = [c_pc EXCEPT ![t] = "mark"]
    /\ UNCHANGED <<c_conn, acquired>>
    /\ PoolFrame

\* self.closed = True
CloseMark(t) ==
    /\ c_pc[t] = "mark"
    /\ conns' = [conns EXCEPT ![c_conn[t]].closed = TRUE]
    /\ c_pc' = [c_pc EXCEPT ![t] = "idle"]
    /\ c_conn' = [c_conn EXCEPT ![t] = 0]
    /\ UNCHANGED <<active_connections, acquired>>
    /\ PoolFrame

PoolNext ==
    \E t \in Threads :
        \/ Acquire(t)
        \/ CloseCheck(t)
        \/ CloseClosed(t)
        \/ CloseRelease(t)
        \/ CloseMark(t)

InitPool ==
    PoolInit /\ MonInit /\ TriIdle /\ ParIdle /\ DiagIdle /\ RemIdle
        /\ PipeIdle /\ StoreIdle /\ WriterIdle /\ BugIdle /\ RouteIdle

SpecPool == InitPool /\ [][PoolNext]_vars

\* conn.close() entered while no other thread is inside close() of the same
\* connection: the closes of one connection follow one another, as in a
\* with-block or a try/finally of the thread that holds the connection.
CloseCheckAlone(t) ==
    /\ CloseCheck(t)
    /\ \A u \in Threads : c_pc[u] # "idle" => c_conn[u] # c_conn'[t]

PoolNextAlone ==
    \E t \in Threads :
        \/ Acquire(t)
        \/ CloseCheckAlone(t)
        \/ CloseClosed(t)
        \/ CloseRelease(t)
        \/ CloseMark(t)

SpecPoolAlone == InitPool /\ [][PoolNextAlone]_vars

\* The connections acquired whose close has not released them yet.
Held == {c \in DOMAIN conns : conns[c].releases = 0}

\* C27: under every interleaving of acquire and close by concurrent threads
\* active_connections stays between 0 and pool_size + max_overflow and equals
\* the number of connections acquired and not yet closed.
C27_ActiveCountsHeld ==
    /\ 0 <= active_connections
    /\ active_connections <= pool_size + max_overflow
    /\ active_connections = Cardinality(Held)

\* C28: acquire on a pool whose active_connections equals pool_size +
\* max_overflow raises an error whose message contains 'exhausted', hands out
\* no connection and leaves active_connections unchanged; acquire on a pool
\* below that succeeds, so after a held connection is closed the next acquire
\* returns a connection.
C28_ExhaustedAcquireRaises ==
    [][(acquired' # acquired \/ Len(conns') # Len(conns)) =>
          IF active_connections = pool_size + max_overflow
          THEN /\ acquired'.status = "raised"
               /\ Contains(Str(acquired'.message), Str("exhausted"))
               /\ active_connections' = active_connections
               /\ conns' = conns
          ELSE /\ acquired'.status = "returned"
               /\ acquired'.conn = Len(conns')
               /\ active_connections' = active_connections + 1
               /\ Len(conns') = Len(conns) + 1]_vars

\* An acquire was refused on the full pool; a connection was closed; the next
\* acquire returned a connection.
C28_Witness ==
    /\ acquired.status = "returned"
    /\ acquired.refused_at = pool_size + max_overflow
    /\ acquired.conn = pool_size + max_overflow + 1
    /\ active_connections = pool_size + max_overflow
    /\ Cardinality({c \in DOMAIN conns : conns[c].closed}) = 1

\* C39: closing a connection is idempotent: the first close of a
\* MockConnection releases it once, bringing active_connections down by one,
\* and every further close of the same connection (an explicit close followed
\* by the close on leaving a with-block) leaves active_connections as it is.
C39_CloseIdempotent ==
    [][\A c \in DOMAIN conns :
          /\ conns'[c].releases # conns[c].releases =>
                /\ ~conns[c].closed
                /\ conns[c].releases = 0
                /\ conns'[c].releases = 1
                /\ active_connections' = active_connections - 1
          /\ (conns[c].closed /\ conns'[c] # conns[c]) =>
                /\ conns'[c].releases = conns[c].releases
                /\ active_connections' = active_connections]_vars

\* A connection closed and closed again while another is still held.
C39_Witness ==
    /\ \E c \in DOMAIN conns :
          conns[c].closed /\ conns[c].reclosed /\ conns[c].releases = 1
    /\ Held # {}
    /\ active_connections = Cardinality(Held)

-----------------------------------------------------------------------------
(* Fault injection: src/app/bugs.py *)

ERROR_RATE_PERCENT == 5     \* Config.ERROR_RATE_PERCENT
RaceRatePercent == 10       \* random.randint(1, 100) <= 10
LargeDataLen == 10000       \* 'x' * 10000

\* What random.randint(1, 100) gives: the ends and both sides of each rate.
Draws == {1, ERROR_RATE_PERCENT, ERROR_RATE_PERCENT + 1,
          RaceRatePercent, RaceRatePercent + 1, 100}

CartData == {"cart-a", "cart-b"}

trigger_random_error(enabled, draw) ==
    IF enabled /\ draw <= ERROR_RATE_PERCENT
    THEN Raise("Random 500 error triggered")
    ELSE ReturnedNone

Session(cart_data) ==
    [cart_data |-> cart_data, large_data |-> [char |-> "x", times |-> LargeDataLen]]

memory_leak_cart_session_ungated(enabled, leaked, cart_data) ==
    Append(leaked, Session(cart_data))

memory_leak_cart_session(enabled, leaked, cart_data) ==
    IF enabled THEN Append(leaked, Session(cart_data)) ELSE leaked

cause_race_condition(enabled, draw) == enabled /\ draw <= RaceRatePercent

BugFrame ==
    UNCHANGED <<monVars, triVars, parVars, diagVars, remVars, pipeVars,
                storeVars, writerVars, poolVars, routeVars>>

BugInit ==
    /\ ENABLE_BUGS \in BOOLEAN
    /\ leaked_sessions = <<>>
    /\ fault = [op |-> "none"]

\* Config.ENABLE_BUGS = ...: the flag is a class attribute read at every call
SetEnableBugs ==
    /\ ENABLE_BUGS' = ~ENABLE_BUGS
    /\ UNCHANGED <<leaked_sessions, fault>>
    /\ BugFrame

TriggerRandomError ==
    /\ \E draw \in Draws :
          fault' = [op |-> "trigger_random_error", enabled |-> ENABLE_BUGS,
                    raised |-> trigger_random_error(ENABLE_BUGS, draw).raised,
                    returned |-> FALSE, before |-> leaked_sessions]
    /\ UNCHANGED <<ENABLE_BUGS, leaked_sessions>>
    /\ BugFrame

MemoryLeakCartSession ==
    /\ Len(leaked_sessions) < MaxLeaks
    /\ \E cart_data \in CartData :
          leaked_sessions' =
              memory_leak_cart_session(ENABLE_BUGS, leaked_sessions, cart_data)
    /\ fault' = [op |-> "memory_leak_cart_session", enabled |-> ENABLE_BUGS,
                 raised |-> FALSE, returned |-> FALSE, before |-> leaked_sessions]
    /\ UNCHANGED ENABLE_BUGS
    /\ BugFrame

CauseRaceCondition ==
    /\ \E draw \in Draws :
          fault' = [op |-> "cause_race_condition", enabled |-> ENABLE_BUGS,
                    raised |-> FALSE,
                    returned |-> cause_race_condition(ENABLE_BUGS, draw),
                    before |-> leaked_sessions]
    /\ UNCHANGED <<ENABLE_BUGS, leaked_sessions>>
    /\ BugFrame

BugNext ==
    \/ SetEnableBugs
    \/ TriggerRandomError
    \/ MemoryLeakCartSession
    \/ CauseRaceCondition

InitBugs ==
    BugInit /\ MonInit /\ TriIdle /\ ParIdle /\ DiagIdle /\ RemIdle
        /\ PipeIdle /\ StoreIdle /\ WriterIdle /\ PoolIdle /\ RouteIdle

SpecBugs == InitBugs /\ [][BugNext]_vars

\* C29: injected faults are gated by ENABLE_BUGS: while it is false,
\* trigger_random_error does not raise, cause_race_condition does not return
\* true and memory_leak_cart_session leaves leaked_sessions as it is; while it
\* is true, every memory_leak_cart_session call makes leaked_sessions longer by
\* exactly one entry; and no operation ever shrinks leaked_sessions.
C29_FaultsGatedByFlag ==
    [][/\ Len(leaked_sessions') >= Len(leaked_sessions)
       /\ SubSeq(leaked_sessions', 1, Len(leaked_sessions)) = leaked_sessions
       /\ fault' # fault =>
             /\ fault'.enabled = ENABLE_BUGS
             /\ ~ENABLE_BUGS =>
                   /\ ~fault'.raised
                   /\ ~fault'.returned
                   /\ leaked_sessions' = leaked_sessions
             /\ (ENABLE_BUGS /\ fault'.op = "memory_leak_cart_session") =>
                   Len(leaked_sessions') = Len(leaked_sessions) + 1
             /\ fault'.op # "memory_leak_cart_session" =>
                   leaked_sessions' = leaked_sessions]_vars

\* A session leaked while the flag was true, then a call with the flag false
\* that left the list alone.
C29_Witness ==
    /\ ~ENABLE_BUGS
    /\ fault.op = "memory_leak_cart_session"
    /\ ~fault.enabled
    /\ Len(leaked_sessions) = 1
    /\ fault.before = leaked_sessions

-----------------------------------------------------------------------------
(* The request handlers create_order and checkout: src/app/routes.py *)

\* db_pool is taken with DB_POOL_SIZE = pool_size and DB_MAX_OVERFLOW =
\* max_overflow; each worker thread serves one request at a time.
NoRequest == [handler |-> "none", pc |-> "idle", conn |-> 0, status |-> 0]

RouteFrame ==
    UNCHANGED <<monVars, triVars, parVars, diagVars, remVars, pipeVars,
                storeVars, writerVars, c_pc, c_conn, acquired, bugVars>>

RouteInit ==
    /\ requests = [t \in Threads |-> NoRequest]
    /\ served = 0
    /\ active_connections = 0
    /\ conns = <<>>
    /\ c_pc = <<>>
    /\ c_conn = <<>>
    /\ acquired = <<>>
    /\ ENABLE_BUGS \in BOOLEAN
    /\ leaked_sessions = <<>>
    /\ fault = [op |-> "none"]

InFlight == Cardinality({t \in Threads : requests[t].pc # "idle"})

\* "except Exception as e: return jsonify({'error': str(e)}), 500"
Respond(t, status) ==
    /\ requests' = [requests EXCEPT ![t] = [@ EXCEPT !.pc = "idle",
                                                    !.status = status]]
    /\ served' = served + 1

\* The handler is entered: trigger_random_error(), then request.get_json()
Enter(t, handler) ==
    /\ requests[t].pc = "idle"
    /\ served + InFlight < MaxRequests
    /\ \E draw \in Draws :
          IF trigger_random_error(ENABLE_BUGS, draw).raised
          THEN /\ requests' = [requests EXCEPT ![t] =
                      [handler |-> handler, pc |-> "idle", conn |-> 0,
                       status |-> 500]]
               /\ served' = served + 1
          ELSE /\ requests' = [requests EXCEPT ![t] =
                      [handler |-> handler, pc |-> "acquire", conn |-> 0,
                       status |-> 0]]
               /\ UNCHANGED served
    /\ UNCHANGED <<active_connections, conns>>
    /\ RouteFrame

\* POST /orders
CreateOrderEnter(t) ==
    /\ requests[t].pc = "idle"
    /\ Enter(t, "create_order")

\* POST /checkout
CheckoutEnter(t) ==
    /\ requests[t].pc = "idle"
    /\ Enter(t, "checkout")

\* conn = db_pool.acquire(): an exhausted pool raises, which the handler
\* answers with 500
RouteAcquire(t) ==
    /\ requests[t].pc = "acquire"
    /\ LET out == acquire(active_connections)
       IN  IF out.raised
           THEN /\ Respond(t, 500)
                /\ UNCHANGED <<active_connections, conns>>
           ELSE /\ active_connections' = out.value
                /\ conns' = Append(conns, MockConnection)
                /\ requests' = [requests EXCEPT ![t] =
                       [@ EXCEPT !.pc = "body", !.conn = Len(conns) + 1]]
                /\ UNCHANGED served
    /\ RouteFrame

\* create_order: conn.execute(...), the order is stored, and
\* "finally: conn.close()" before the 201 goes out
CreateOrderFinish(t) ==
    /\ requests[t].pc = "body"
    /\ requests[t].handler = "create_order"
    /\ LET c == requests[t].conn
       IN  IF conns[c].closed
           THEN UNCHANGED <<active_connections, conns>>
           ELSE /\ active_connections' = release(active_connections)
                /\ conns' = [conns EXCEPT ![c].closed = TRUE,
                                          ![c].releases = @ + 1]
    /\ Respond(t, 201)
    /\ RouteFrame

\* checkout: conn.execute(...), "finally: pass" and the 200 goes out
CheckoutFinish(t) ==
    /\ requests[t].pc = "body"
    /\ requests[t].handler = "checkout"
    /\ Respond(t, 200)
    /\ UNCHANGED <<active_connections, conns>>
    /\ RouteFrame

RouteNext ==
    \E t \in Threads :
        \/ CreateOrderEnter(t)
        \/ CheckoutEnter(t)
        \/ RouteAcquire(t)
        \/ CreateOrderFinish(t)
        \/ CheckoutFinish(t)

InitRoutes ==
    RouteInit /\ MonInit /\ TriIdle /\ ParIdle /\ DiagIdle /\ RemIdle
        /\ PipeIdle /\ StoreIdle /\ WriterIdle

SpecRoutes == InitRoutes /\ [][RouteNext]_vars

\* C40: every handler that acquires a pool connection releases it before it
\* responds, on the success path and on every error path: whenever all the
\* requests made so far have been responded to, active_connections is 0.
C40_HandlersReleaseConnection ==
    (\A t \in Threads : requests[t].pc = "idle") => active_connections = 0

=============================================================================
